---- MODULE Spec2Model ----
(***************************************************************************)
(* A model of the S16 two-pass assembler: the label resolver               *)
(* (label_table.rs), the line translator (assembler.rs), the instruction   *)
(* and data representation (repr/*.rs), the validator (validation.rs) and  *)
(* the emitter loop of main.rs.                                            *)
(*                                                                         *)
(* Text is modelled as it is in the program: a line is a sequence of       *)
(* one-character strings.  Indices are Rust's (0-based, end-exclusive); a  *)
(* search that finds nothing returns -1 where Rust returns None.  A panic  *)
(* (unwrap or expect on None/Err, an out-of-range slice, panic!) is the    *)
(* result [ok |-> FALSE, err |-> <site>].                                  *)
(***************************************************************************)
EXTENDS Integers, Sequences, FiniteSets, TLC

\* ------------------------------------------------------------ characters

Digits == {"0", "1", "2", "3", "4", "5", "6", "7", "8", "9"}

UpperAlphabet ==
    <<"A", "B", "C", "D", "E", "F", "G", "H", "I", "J", "K", "L", "M",
      "N", "O", "P", "Q", "R", "S", "T", "U", "V", "W", "X", "Y", "Z">>

LowerAlphabet ==
    <<"a", "b", "c", "d", "e", "f", "g", "h", "i", "j", "k", "l", "m",
      "n", "o", "p", "q", "r", "s", "t", "u", "v", "w", "x", "y", "z">>

UpperLetters == {UpperAlphabet[i] : i \in 1..Len(UpperAlphabet)}

LowerLetters == {LowerAlphabet[i] : i \in 1..Len(UpperAlphabet)}

\* char::is_whitespace, on the characters a source line can hold
Whitespace == {" ", "\t"}

\* The grave accent (0x60), which delimits the text of .asciiz.  It cannot be
\* written as a TLA+ string literal, so it alone has a name.
Backtick == "BACKTICK"

\* The printable ASCII characters in code order, from 0x20 (space) to 0x7E.
AsciiPrintable ==
    <<" ", "!", "\"", "#", "$", "%", "&", "'", "(", ")", "*", "+", ",", "-",
      ".", "/", "0", "1", "2", "3", "4", "5", "6", "7", "8", "9", ":", ";",
      "<", "=", ">", "?", "@", "A", "B", "C", "D", "E", "F", "G", "H", "I",
      "J", "K", "L", "M", "N", "O", "P", "Q", "R", "S", "T", "U", "V", "W",
      "X", "Y", "Z", "[", "\\", "]", "^", "_", Backtick, "a", "b", "c", "d", "e",
      "f", "g", "h", "i", "j", "k", "l", "m", "n", "o", "p", "q", "r", "s",
      "t", "u", "v", "w", "x", "y", "z", "{", "|", "}", "~">>

\* str::as_bytes of one ASCII character ("\t" is 9)
as_byte(c) ==
    IF c = "\t" THEN 9
    ELSE 31 + (CHOOSE i \in 1..Len(AsciiPrintable) : AsciiPrintable[i] = c)

is_ascii_alphabetic(c) == c \in UpperLetters \cup LowerLetters

is_ascii_alphanumeric(c) == is_ascii_alphabetic(c) \/ c \in Digits

to_lowercase_char(c) ==
    IF c \in UpperLetters
    THEN LowerAlphabet[CHOOSE i \in 1..Len(UpperAlphabet) : UpperAlphabet[i] = c]
    ELSE c

\* --------------------------------------------------------------- strings

\* str::to_lowercase
to_lowercase(s) == [i \in 1..Len(s) |-> to_lowercase_char(s[i])]

\* s[a..b] of Rust for 0 <= a <= b <= len; the caller checks the range
Slice(s, a, b) == SubSeq(s, a + 1, b)

SliceOk(s, a, b) == 0 <= a /\ a <= b /\ b <= Len(s)

\* whether pattern p occurs in s at 0-based index i
MatchesAt(s, p, i) ==
    /\ i + Len(p) <= Len(s)
    /\ \A k \in 1..Len(p) : s[i + k] = p[k]

\* str::find: the 0-based index of the first occurrence of p, -1 for None
find(s, p) ==
    IF \E i \in 0..Len(s) : MatchesAt(s, p, i)
    THEN CHOOSE i \in 0..Len(s) :
            /\ MatchesAt(s, p, i)
            /\ \A j \in 0..(i - 1) : ~MatchesAt(s, p, j)
    ELSE -1

contains(s, p) == find(s, p) # -1

starts_with(s, p) == MatchesAt(s, p, 0)

ends_with(s, p) == Len(p) <= Len(s) /\ MatchesAt(s, p, Len(s) - Len(p))

RECURSIVE trim_start(_)
trim_start(s) ==
    IF s # <<>> /\ Head(s) \in Whitespace THEN trim_start(Tail(s)) ELSE s

RECURSIVE trim_end(_)
trim_end(s) ==
    IF s # <<>> /\ s[Len(s)] \in Whitespace
    THEN trim_end(SubSeq(s, 1, Len(s) - 1))
    ELSE s

\* str::trim
trim(s) == trim_end(trim_start(s))

\* str::split_whitespace: the maximal runs of non-whitespace, in order.
\* cur is the token being read, acc the tokens already closed.
RECURSIVE SplitFrom(_, _, _)
SplitFrom(s, cur, acc) ==
    IF s = <<>>
    THEN IF cur = <<>> THEN acc ELSE Append(acc, cur)
    ELSE IF Head(s) \in Whitespace
         THEN SplitFrom(Tail(s), <<>>, IF cur = <<>> THEN acc ELSE Append(acc, cur))
         ELSE SplitFrom(Tail(s), Append(cur, Head(s)), acc)

split_whitespace(s) == SplitFrom(s, <<>>, <<>>)

\* str::replace: every non-overlapping occurrence of a non-empty pattern,
\* left to right
RECURSIVE replace(_, _, _)
replace(s, from, to) ==
    IF s = <<>> THEN <<>>
    ELSE IF MatchesAt(s, from, 0)
         THEN to \o replace(SubSeq(s, Len(from) + 1, Len(s)), from, to)
         ELSE <<Head(s)>> \o replace(Tail(s), from, to)

\* ---------------------------------------------------------------- numbers

DigitChars == <<"0", "1", "2", "3", "4", "5", "6", "7", "8", "9">>

\* usize::to_string
RECURSIVE to_string(_)
to_string(n) ==
    IF n < 10 THEN <<DigitChars[n + 1]>>
    ELSE Append(to_string(n \div 10), DigitChars[(n % 10) + 1])

\* The digits of radix 16, by value, in their lower-case and upper-case forms
LowerDigitChars ==
    <<"0", "1", "2", "3", "4", "5", "6", "7", "8", "9", "a", "b", "c", "d", "e", "f">>

UpperDigitChars ==
    <<"0", "1", "2", "3", "4", "5", "6", "7", "8", "9", "A", "B", "C", "D", "E", "F">>

\* char::to_digit(radix): the digit's value, -1 when c is no digit of the radix
to_digit(c, radix) ==
    IF \E i \in 1..radix : c \in {LowerDigitChars[i], UpperDigitChars[i]}
    THEN (CHOOSE i \in 1..radix : c \in {LowerDigitChars[i], UpperDigitChars[i]}) - 1
    ELSE -1

\* ---- unsigned integers of up to 32 bits
\* A value is held as two 16-bit limbs, [hi, lo] for hi * 2^16 + lo, so that
\* u32 arithmetic never needs an integer of more than 31 bits.

U8Max == [hi |-> 0, lo |-> 255]

U16Max == [hi |-> 0, lo |-> 65535]

U32Max == [hi |-> 65535, lo |-> 65535]

ParseErr == [ok |-> FALSE, hi |-> 0, lo |-> 0]

\* acc * radix + d, or ParseErr once the value passes max (PosOverflow) or
\* when d is no digit (InvalidDigit, d = -1)
MulAdd(acc, radix, d, max) ==
    IF d = -1
       \/ acc.hi * radix + ((acc.lo * radix + d) \div 65536) > max.hi
       \/ /\ acc.hi * radix + ((acc.lo * radix + d) \div 65536) = max.hi
          /\ (acc.lo * radix + d) % 65536 > max.lo
    THEN ParseErr
    ELSE [ok |-> TRUE,
          hi |-> acc.hi * radix + ((acc.lo * radix + d) \div 65536),
          lo |-> (acc.lo * radix + d) % 65536]

\* The value of a digit string read left to right from acc; ParseErr on an
\* invalid digit or on overflow of the type
RECURSIVE DigitsValue(_, _, _, _)
DigitsValue(s, radix, max, acc) ==
    IF ~acc.ok \/ s = <<>> THEN acc
    ELSE DigitsValue(Tail(s), radix, max, MulAdd(acc, radix, to_digit(Head(s), radix), max))

\* The digits of a number text after its optional "+"
UnsignedDigits(s) == IF s # <<>> /\ Head(s) = "+" THEN Tail(s) ELSE s

\* <unsigned>::from_str_radix for a type whose MAX is max: an optional "+",
\* then at least one digit
from_str_radix(s, radix, max) ==
    IF UnsignedDigits(s) = <<>> THEN ParseErr
    ELSE DigitsValue(UnsignedDigits(s), radix, max, [ok |-> TRUE, hi |-> 0, lo |-> 0])

\* The radix convert_imm_str_to_unsigned reads a text in, from its prefix
imm_radix(original) ==
    IF starts_with(original, <<"0", "x">>) THEN 16
    ELSE IF starts_with(original, <<"0", "b">>) THEN 2
    ELSE 10

\* The part of the text it hands to from_str_radix: original[2..] after a
\* prefix, the whole text otherwise
imm_digits(original) ==
    IF starts_with(original, <<"0", "x">>) \/ starts_with(original, <<"0", "b">>)
    THEN Slice(original, 2, Len(original))
    ELSE original

\* convert_imm_str_to_unsigned::<T>, T unsigned with MAX = max
convert_imm_str_to_unsigned(original, max) ==
    from_str_radix(imm_digits(original), imm_radix(original), max)

\* u16::to_be_bytes
u16_to_be_bytes(v) == <<v \div 256, v % 256>>

\* u32::to_be_bytes of hi * 2^16 + lo
u32_to_be_bytes(hi, lo) == u16_to_be_bytes(hi) \o u16_to_be_bytes(lo)

\* -------------------------------------------------------------- bit ops

\* a | b on unsigned integers
RECURSIVE BitOr(_, _)
BitOr(a, b) ==
    IF a = 0 THEN b
    ELSE IF b = 0 THEN a
    ELSE 2 * BitOr(a \div 2, b \div 2) + (IF a % 2 = 1 \/ b % 2 = 1 THEN 1 ELSE 0)

\* x << n on u16: the bits shifted past bit 15 are lost
Shl16(x, n) == (x * (2 ^ n)) % 65536

\* bool as u16
BoolAsU16(b) == IF b THEN 1 ELSE 0

\* ------------------------------------------------------------- registers

\* enum Register
Registers ==
    {"None", "Ax", "Al", "Ah", "Bx", "Bl", "Bh", "Cx", "Cl", "Ch",
     "Dx", "Dl", "Dh", "Rp", "Fp", "Bp", "Sp", "St", "Pc"}

FullRegisters == {"Ax", "Bx", "Cx", "Dx", "Rp", "Fp", "Bp", "Sp"}

HighRegisters == {"Ah", "Bh", "Ch", "Dh"}

LowRegisters == {"Al", "Bl", "Cl", "Dl"}

\* Into<u16> for Register: the family code, -1 for the panic on St and Pc
register_into_u16(reg) ==
    CASE reg = "None" -> 0
      [] reg \in {"Ax", "Al", "Ah"} -> 0
      [] reg \in {"Bx", "Bl", "Bh"} -> 1
      [] reg \in {"Cx", "Cl", "Ch"} -> 2
      [] reg \in {"Dx", "Dl", "Dh"} -> 3
      [] reg = "Rp" -> 4
      [] reg = "Fp" -> 5
      [] reg = "Bp" -> 6
      [] reg = "Sp" -> 7
      [] OTHER -> -1

\* Register::is_high_reg: every full-width and high-half register
is_high_reg(reg) == reg \in FullRegisters \cup HighRegisters

\* Register::is_low_reg: every full-width and low-half register
is_low_reg(reg) == reg \in FullRegisters \cup LowRegisters

\* The names Register::from matches, after to_lowercase, and their registers
RegisterNames ==
    <<<<"n", "o", "n", "e">>, <<"a", "x">>, <<"a", "h">>, <<"a", "l">>,
      <<"b", "x">>, <<"b", "h">>, <<"b", "l">>, <<"c", "x">>, <<"c", "h">>,
      <<"c", "l">>, <<"d", "x">>, <<"d", "h">>, <<"d", "l">>, <<"r", "p">>,
      <<"f", "p">>, <<"b", "p">>, <<"s", "p">>, <<"p", "c">>>>

ParsedRegisters ==
    <<"None", "Ax", "Ah", "Al", "Bx", "Bh", "Bl", "Cx", "Ch", "Cl", "Dx",
      "Dh", "Dl", "Rp", "Fp", "Bp", "Sp", "Pc">>


\* The match of Register::from made on the text as it is written
register_from_exact(name) ==
    IF \E i \in 1..Len(RegisterNames) : RegisterNames[i] = name
    THEN [ok |-> TRUE,
          reg |-> ParsedRegisters[CHOOSE i \in 1..Len(RegisterNames) :
                                     RegisterNames[i] = name]]
    ELSE [ok |-> FALSE, reg |-> "None"]

\* From<&String> for Register: [ok, reg]; ok = FALSE is the panic
\* "Invalid register {} found"
register_from(name) ==
    LET lower == to_lowercase(name)
    IN IF \E i \in 1..Len(RegisterNames) : RegisterNames[i] = lower
       THEN [ok |-> TRUE,
             reg |-> ParsedRegisters[CHOOSE i \in 1..Len(RegisterNames) :
                                        RegisterNames[i] = lower]]
       ELSE [ok |-> FALSE, reg |-> "None"]

\* --------------------------------------------------------------- opcodes

\* enum Opcode, in the order of its codes: Opcodes[i] has code i - 1
Opcodes ==
    <<"Nop", "Add", "Addu", "Addc", "Inc", "Sub", "Subu", "Subb", "Dec",
      "Cmp", "Neg", "Move", "Push", "Pop", "PushA", "PopA", "PushF", "PopF",
      "Swap", "In", "Out", "Lda", "MovI", "Mul", "Mulu", "Div", "Divu",
      "Csign", "Not", "And", "Or", "Xor", "Sra", "Srl", "Sll", "Clear",
      "Call", "Ret", "Jump", "Jeq", "Jne", "Jgt", "Jle", "Jgte", "Jlte",
      "Jzro", "Jnzro", "Jovf", "Jcry", "Scry", "Ccry", "Eitr", "Ditr",
      "Intr", "Into", "Iret", "Load", "Store">>

\* The mnemonic Opcode::from matches for Opcodes[i], after to_lowercase
Mnemonics ==
    <<<<"n", "o", "p">>, <<"a", "d", "d">>, <<"a", "d", "d", "u">>,
      <<"a", "d", "d", "c">>, <<"i", "n", "c">>, <<"s", "u", "b">>,
      <<"s", "u", "b", "u">>, <<"s", "u", "b", "b">>, <<"d", "e", "c">>,
      <<"c", "m", "p">>, <<"n", "e", "g">>, <<"m", "o", "v", "e">>,
      <<"p", "u", "s", "h">>, <<"p", "o", "p">>, <<"p", "u", "s", "h", "a">>,
      <<"p", "o", "p", "a">>, <<"p", "u", "s", "h", "f">>,
      <<"p", "o", "p", "f">>, <<"s", "w", "a", "p">>, <<"i", "n">>,
      <<"o", "u", "t">>, <<"l", "d", "a">>, <<"m", "o", "v", "i">>,
      <<"m", "u", "l">>, <<"m", "u", "l", "u">>, <<"d", "i", "v">>,
      <<"d", "i", "v", "u">>, <<"c", "s", "i", "g", "n">>, <<"n", "o", "t">>,
      <<"a", "n", "d">>, <<"o", "r">>, <<"x", "o", "r">>, <<"s", "r", "a">>,
      <<"s", "r", "l">>, <<"s", "l", "l">>, <<"c", "l", "e", "a", "r">>,
      <<"c", "a", "l", "l">>, <<"r", "e", "t">>, <<"j", "u", "m", "p">>,
      <<"j", "e", "q">>, <<"j", "n", "e">>, <<"j", "g", "t">>,
      <<"j", "l", "e">>, <<"j", "g", "t", "e">>, <<"j", "l", "t", "e">>,
      <<"j", "z", "r", "o">>, <<"j", "n", "z", "r", "o">>,
      <<"j", "o", "v", "f">>, <<"j", "c", "r", "y">>, <<"s", "c", "r", "y">>,
      <<"c", "c", "r", "y">>, <<"e", "i", "t", "r">>, <<"d", "i", "t", "r">>,
      <<"i", "n", "t", "r">>, <<"i", "n", "t", "o">>, <<"i", "r", "e", "t">>,
      <<"l", "o", "a", "d">>, <<"s", "t", "o", "r", "e">>>>


OpcodeSet == {Opcodes[i] : i \in 1..Len(Opcodes)}

\* Into<u16> for Opcode: the 6-bit code
opcode_into_u16(opcode) == (CHOOSE i \in 1..Len(Opcodes) : Opcodes[i] = opcode) - 1

\* From<&String> for Opcode: [ok, opcode]; ok = FALSE is the panic
\* "Invalid opcode found"
opcode_from(code) ==
    LET lower == to_lowercase(code)
    IN IF \E i \in 1..Len(Mnemonics) : Mnemonics[i] = lower
       THEN [ok |-> TRUE,
             opcode |-> Opcodes[CHOOSE i \in 1..Len(Mnemonics) : Mnemonics[i] = lower]]
       ELSE [ok |-> FALSE, opcode |-> "Nop"]

\* Opcode::is_signed: the values the opcode's signed flag can have.  The
\* per-opcode table is fixed; test_gen_binary fixes its entries for Nop, Add,
\* Addc, In and MovI, and every other entry is left open.
is_signed(opcode) ==
    CASE opcode = "Add" -> {TRUE}
      [] opcode \in {"Nop", "Addc", "In", "MovI"} -> {FALSE}
      [] OTHER -> BOOLEAN

\* Opcode::set_flags: the values the opcode's set-flags flag can have
set_flags(opcode) ==
    CASE opcode \in {"Add", "Addc"} -> {TRUE}
      [] opcode \in {"Nop", "In", "MovI"} -> {FALSE}
      [] OTHER -> BOOLEAN

\* -------------------------------------------------------------- operands

\* enum Operand; reg is read only of a Register, imm only of an immediate
Register(reg) == [kind |-> "Register", reg |-> reg, imm |-> 0]

ShortImmediate(imm) == [kind |-> "ShortImmediate", reg |-> "None", imm |-> imm]

LargeImmediate(imm) == [kind |-> "LargeImmediate", reg |-> "None", imm |-> imm]

\* Into<u16> for Operand: the operand code, -1 for the register's panic
operand_into_u16(operand) ==
    IF operand.kind = "Register" THEN register_into_u16(operand.reg)
    ELSE operand.imm

\* The first match of get_reg_code with St and Pc taken as full-width
\* registers
reg_a_code_any(reg) ==
    CASE reg = "None" -> 0
      [] reg \in LowRegisters -> 2
      [] reg \in HighRegisters -> 1
      [] OTHER -> 3

\* The first match of get_reg_code, on the register of reg_a: -1 for the
\* panic "Invalid register upper found"
reg_a_code(reg) ==
    CASE reg = "None" -> 0
      [] reg \in LowRegisters -> 2
      [] reg \in HighRegisters -> 1
      [] reg \in FullRegisters -> 3
      [] OTHER -> -1

\* The second match of get_reg_code giving the bits of the first
reg_b_code_unshifted(reg) ==
    CASE reg = "None" -> 0
      [] reg \in LowRegisters -> 2
      [] reg \in HighRegisters -> 1
      [] reg \in FullRegisters -> 3
      [] OTHER -> -1

\* Its second match, on the register of reg_b: -1 for the panic "Invalid
\* lower register found"
reg_b_code(reg) ==
    CASE reg = "None" -> 0
      [] reg \in LowRegisters -> 8
      [] reg \in HighRegisters -> 4
      [] reg \in FullRegisters -> 12
      [] OTHER -> -1

\* Register::get_reg_code: the packed width classes of two operands, -1 for
\* its panics (St or Pc as a register, an immediate as reg_a)
get_reg_code(reg_a, reg_b) ==
    IF reg_a.kind # "Register" THEN -1
    ELSE IF reg_a_code(reg_a.reg) = -1 THEN -1
    ELSE IF reg_b.kind # "Register" THEN Shl16(reg_a_code(reg_a.reg), 2)
    ELSE IF reg_b_code(reg_b.reg) = -1 THEN -1
    ELSE BitOr(reg_b_code(reg_b.reg), reg_a_code(reg_a.reg))

\* ---------------------------------------------------------- instructions

\* The instruction a failed construction leaves in the model
NoInstruction ==
    [opcode |-> "Nop", high |-> FALSE, low |-> FALSE, signed |-> FALSE,
     set_flags |-> FALSE, operand_a |-> Register("None"),
     operand_b |-> Register("None")]

\* Instruction::new with high and low read of operand_b when it is a register
instruction_new_from_b(opcode, operand_a, operand_b, sg, fl) ==
    IF operand_a.kind = "Register"
    THEN [ok |-> TRUE,
          instr |-> [opcode |-> opcode,
                     high |-> is_high_reg(operand_b.reg),
                     low |-> is_low_reg(operand_b.reg),
                     signed |-> sg,
                     set_flags |-> fl,
                     operand_a |-> operand_a,
                     operand_b |-> operand_b]]
    ELSE [ok |-> FALSE, instr |-> NoInstruction]

\* Instruction::new, given the opcode's two flags: [ok, instr]; ok = FALSE is
\* the panic "Found immediate in 1st operand position"
instruction_new(opcode, operand_a, operand_b, sg, fl) ==
    IF operand_a.kind = "Register"
    THEN [ok |-> TRUE,
          instr |-> [opcode |-> opcode,
                     high |-> is_high_reg(operand_a.reg),
                     low |-> is_low_reg(operand_a.reg),
                     signed |-> sg,
                     set_flags |-> fl,
                     operand_a |-> operand_a,
                     operand_b |-> operand_b]]
    ELSE [ok |-> FALSE, instr |-> NoInstruction]

\* enum InstrType: Regular(lo), or Long(hi * 2^16 + lo); ok = FALSE is a
\* panic of the conversion
Regular(w) == [ok |-> TRUE, type |-> "Regular", hi |-> 0, lo |-> w]

Long(upper, lower) == [ok |-> TRUE, type |-> "Long", hi |-> upper, lo |-> lower]

EncodePanic == [ok |-> FALSE, type |-> "Panic", hi |-> 0, lo |-> 0]

\* upper_instr of the conversion: the opcode and the four flag bits
upper_instr(instr) ==
    BitOr(BitOr(BitOr(BitOr(BitOr(0, Shl16(opcode_into_u16(instr.opcode), 10)),
                            Shl16(BoolAsU16(instr.high), 9)),
                      Shl16(BoolAsU16(instr.low), 8)),
                Shl16(BoolAsU16(instr.set_flags), 7)),
          Shl16(BoolAsU16(instr.signed), 6))

\* The match of the conversion on operand_b, from upper_instr and the codes
\* of the two operands (-1 for a code whose conversion panicked)
instr_type(operand_b, upper, operand_a_code, operand_b_code) ==
    IF operand_b_code = -1 \/ operand_a_code = -1 THEN EncodePanic
    ELSE IF operand_b.kind \in {"Register", "ShortImmediate"}
    THEN Regular(BitOr(BitOr(upper, Shl16(operand_a_code, 3)), operand_b_code))
    ELSE Long(BitOr(upper, operand_a_code), operand_b_code)

\* The conversion with the codes of the two operands taken in the wrong order
instruction_into_swapped(instr) ==
    instr_type(instr.operand_b, upper_instr(instr),
               operand_into_u16(instr.operand_b), operand_into_u16(instr.operand_a))

\* The conversion with the Long arm placing operand_a as the Regular arm does
instruction_into_long_shifted(instr) ==
    IF instr.operand_b.kind = "LargeImmediate"
    THEN instr_type(instr.operand_b, upper_instr(instr),
                    Shl16(operand_into_u16(instr.operand_a), 3),
                    operand_into_u16(instr.operand_b))
    ELSE instr_type(instr.operand_b, upper_instr(instr),
                    operand_into_u16(instr.operand_a), operand_into_u16(instr.operand_b))

\* Into<InstrType> for Instruction
instruction_into(instr) ==
    instr_type(instr.operand_b, upper_instr(instr),
               operand_into_u16(instr.operand_a), operand_into_u16(instr.operand_b))

\* ------------------------------------------------------------ validation

\* validate_label without its second test, of every character
validate_label_first_only(label) ==
    is_ascii_alphabetic(label[1]) \/ label[1] = "_"

\* validate_label: TRUE for Ok(()), FALSE for Err(LabelInvalidFormat).  The
\* caller checks that the label is not empty (chars().nth(0).unwrap()).
validate_label(label) ==
    /\ is_ascii_alphabetic(label[1]) \/ label[1] = "_"
    /\ \A i \in 1..Len(label) : is_ascii_alphanumeric(label[i]) \/ label[i] = "_"

\* The pair check with the two kinds of half register taken as one kind
validate_register_operand_pair_halves(operand_a, operand_b) ==
    IF operand_a.kind # "Register" THEN "OperandNotRegisterError"
    ELSE IF operand_b.kind # "Register" THEN "OperandNotRegisterError"
    ELSE IF operand_a.reg \in FullRegisters
    THEN IF operand_b.reg \in FullRegisters THEN "Ok" ELSE "MixedRegisterTypesError"
    ELSE IF operand_a.reg \in HighRegisters \cup LowRegisters
    THEN IF operand_b.reg \in HighRegisters \cup LowRegisters
         THEN "Ok" ELSE "MixedRegisterTypesError"
    ELSE "RegisterIsNoneError"

\* The pair check with the two halves of one general register let through
validate_register_operand_pair_same_letter(operand_a, operand_b) ==
    IF operand_a.kind # "Register" THEN "OperandNotRegisterError"
    ELSE IF operand_b.kind # "Register" THEN "OperandNotRegisterError"
    ELSE IF operand_a.reg \in FullRegisters
    THEN IF operand_b.reg \in FullRegisters THEN "Ok" ELSE "MixedRegisterTypesError"
    ELSE IF operand_a.reg \in HighRegisters
    THEN IF \/ operand_b.reg \in HighRegisters
            \/ /\ operand_b.reg \in LowRegisters
               /\ register_into_u16(operand_b.reg) = register_into_u16(operand_a.reg)
         THEN "Ok" ELSE "MixedRegisterTypesError"
    ELSE IF operand_a.reg \in LowRegisters
    THEN IF \/ operand_b.reg \in LowRegisters
            \/ /\ operand_b.reg \in HighRegisters
               /\ register_into_u16(operand_b.reg) = register_into_u16(operand_a.reg)
         THEN "Ok" ELSE "MixedRegisterTypesError"
    ELSE "RegisterIsNoneError"

\* validate_register_operand_pair: "Ok" or the name of the ValidationError
validate_register_operand_pair(operand_a, operand_b) ==
    IF operand_a.kind # "Register" THEN "OperandNotRegisterError"
    ELSE IF operand_b.kind # "Register" THEN "OperandNotRegisterError"
    ELSE LET reg_a == operand_a.reg
             reg_b == operand_b.reg
         IN CASE reg_a \in {"Ax", "Bx", "Cx", "Dx", "Sp", "Fp", "Bp", "Rp"} ->
                   IF reg_b \in {"Ax", "Bx", "Cx", "Dx", "Sp", "Fp", "Bp", "Rp"}
                   THEN "Ok" ELSE "MixedRegisterTypesError"
              [] reg_a \in {"Ah", "Bh", "Ch", "Dh"} ->
                   IF reg_b \in {"Ah", "Bh", "Ch", "Dh"}
                   THEN "Ok" ELSE "MixedRegisterTypesError"
              [] reg_a \in {"Al", "Bl", "Cl", "Dl"} ->
                   IF reg_b \in {"Al", "Bl", "Cl", "Dl"}
                   THEN "Ok" ELSE "MixedRegisterTypesError"
              [] OTHER -> "RegisterIsNoneError"

\* The opcode classes validate_instruction matches on
NoOperandOpcodes ==
    {"Nop", "PopA", "PushA", "PopF", "PushF", "Ret", "Ccry", "Scry", "Eitr",
     "Ditr", "Iret"}

TwoRegisterOpcodes ==
    {"Add", "Sub", "Cmp", "Move", "Swap", "Mul", "Mulu", "Div", "Divu", "And",
     "Or", "Xor", "Sra", "Srl", "Sll", "Lda", "Load", "Store", "Addu", "Subu"}

OneRegisterOpcodes ==
    {"Addc", "Inc", "Subb", "Dec", "Neg", "Push", "Pop", "Csign", "Not",
     "Clear", "Call", "Jump", "Jeq", "Jne", "Jgt", "Jle", "Jgte", "Jlte",
     "Jzro", "Jnzro", "Jovf", "Jcry"}

RegisterAndShortImmediateOpcodes == {"In", "Out", "Intr", "Into"}

\* instr.register_code, which validate_instruction reads: the packed code
\* of the instruction's two operands (Register::get_reg_code), -1 its panic
register_code(instr) == get_reg_code(instr.operand_a, instr.operand_b)

\* The operand check letting every register through
OperandIsNone_any_register(operand) ==
    IF operand.kind # "Register" THEN "OperandNotRegisterError"
    ELSE "Ok"

\* The operand check shared by the arms of validate_instruction: an
\* immediate and a register other than None are errors
OperandIsNone(operand) ==
    IF operand.kind # "Register" THEN "OperandNotRegisterError"
    ELSE IF operand.reg = "None" THEN "Ok"
    ELSE "RegisterNotNoneError"

\* The match with operand_b of a OneRegister opcode left unread
validate_opcode_class_first_only(instr, rc, a, b) ==
    IF rc = -1 THEN "Panic"
    ELSE IF instr.opcode \in NoOperandOpcodes
    THEN IF rc # 0 THEN "InvalidRegisterCodeError"
         ELSE IF OperandIsNone(a) # "Ok" THEN OperandIsNone(a)
         ELSE OperandIsNone(b)
    ELSE IF instr.opcode \in TwoRegisterOpcodes
    THEN IF ~(rc = 10 \/ rc = 5 \/ rc = 9 \/ rc = 6 \/ rc = 15)
         THEN "InvalidRegisterCodeError"
         ELSE IF a.kind # "Register" THEN "OperandNotRegisterError"
         ELSE IF b.kind # "Register" THEN "OperandNotRegisterError"
         ELSE validate_register_operand_pair(a, b)
    ELSE IF instr.opcode \in OneRegisterOpcodes
    THEN IF ~(rc # 12 \/ rc # 4 \/ rc # 8) THEN "InvalidRegisterCodeError"
         ELSE IF a.kind # "Register" THEN "OperandNotRegisterError"
         ELSE IF a.reg = "None" THEN "RegisterIsNoneError"
         ELSE "Ok"
    ELSE IF instr.opcode \in RegisterAndShortImmediateOpcodes
    THEN IF ~(rc # 12 \/ rc # 4 \/ rc # 8) THEN "InvalidRegisterCodeError"
         ELSE IF a.kind # "Register" THEN "OperandNotRegisterError"
         ELSE IF b.kind # "ShortImmediate" THEN "OperandNotShortImmediateError"
         ELSE IF b.imm > 31 THEN "ImmediateTooLargeError"
         ELSE "Ok"
    ELSE \* Opcode::MovI
         IF ~(rc # 12 \/ rc # 4 \/ rc # 8) THEN "InvalidRegisterCodeError"
         ELSE IF a.kind # "Register" THEN "OperandNotRegisterError"
         ELSE IF b.kind # "LargeImmediate" THEN "OperandNotLongImmediateError"
         ELSE "Ok"

\* The match with the range of a ShortImmediate left unchecked
validate_opcode_class_any_short(instr, rc, a, b) ==
    IF rc = -1 THEN "Panic"
    ELSE IF instr.opcode \in NoOperandOpcodes
    THEN IF rc # 0 THEN "InvalidRegisterCodeError"
         ELSE IF OperandIsNone(a) # "Ok" THEN OperandIsNone(a)
         ELSE OperandIsNone(b)
    ELSE IF instr.opcode \in TwoRegisterOpcodes
    THEN IF ~(rc = 10 \/ rc = 5 \/ rc = 9 \/ rc = 6 \/ rc = 15)
         THEN "InvalidRegisterCodeError"
         ELSE IF a.kind # "Register" THEN "OperandNotRegisterError"
         ELSE IF b.kind # "Register" THEN "OperandNotRegisterError"
         ELSE validate_register_operand_pair(a, b)
    ELSE IF instr.opcode \in OneRegisterOpcodes
    THEN IF ~(rc # 12 \/ rc # 4 \/ rc # 8) THEN "InvalidRegisterCodeError"
         ELSE IF a.kind # "Register" THEN "OperandNotRegisterError"
         ELSE IF a.reg = "None" THEN "RegisterIsNoneError"
         ELSE OperandIsNone(b)
    ELSE IF instr.opcode \in RegisterAndShortImmediateOpcodes
    THEN IF ~(rc # 12 \/ rc # 4 \/ rc # 8) THEN "InvalidRegisterCodeError"
         ELSE IF a.kind # "Register" THEN "OperandNotRegisterError"
         ELSE IF b.kind # "ShortImmediate" THEN "OperandNotShortImmediateError"
         ELSE "Ok"
    ELSE \* Opcode::MovI
         IF ~(rc # 12 \/ rc # 4 \/ rc # 8) THEN "InvalidRegisterCodeError"
         ELSE IF a.kind # "Register" THEN "OperandNotRegisterError"
         ELSE IF b.kind # "LargeImmediate" THEN "OperandNotLongImmediateError"
         ELSE "Ok"

\* The match of validate_instruction on the opcode, rc being the register
\* code it reads
validate_opcode_class(instr, rc, a, b) ==
    IF rc = -1 THEN "Panic"
    ELSE IF instr.opcode \in NoOperandOpcodes
    THEN IF rc # 0 THEN "InvalidRegisterCodeError"
         ELSE IF OperandIsNone(a) # "Ok" THEN OperandIsNone(a)
         ELSE OperandIsNone(b)
    ELSE IF instr.opcode \in TwoRegisterOpcodes
    THEN IF ~(rc = 10 \/ rc = 5 \/ rc = 9 \/ rc = 6 \/ rc = 15)
         THEN "InvalidRegisterCodeError"
         ELSE IF a.kind # "Register" THEN "OperandNotRegisterError"
         ELSE IF b.kind # "Register" THEN "OperandNotRegisterError"
         ELSE validate_register_operand_pair(a, b)
    ELSE IF instr.opcode \in OneRegisterOpcodes
    THEN IF ~(rc # 12 \/ rc # 4 \/ rc # 8) THEN "InvalidRegisterCodeError"
         ELSE IF a.kind # "Register" THEN "OperandNotRegisterError"
         ELSE IF a.reg = "None" THEN "RegisterIsNoneError"
         ELSE OperandIsNone(b)
    ELSE IF instr.opcode \in RegisterAndShortImmediateOpcodes
    THEN IF ~(rc # 12 \/ rc # 4 \/ rc # 8) THEN "InvalidRegisterCodeError"
         ELSE IF a.kind # "Register" THEN "OperandNotRegisterError"
         ELSE IF b.kind # "ShortImmediate" THEN "OperandNotShortImmediateError"
         ELSE IF b.imm > 31 THEN "ImmediateTooLargeError"
         ELSE "Ok"
    ELSE \* Opcode::MovI
         IF ~(rc # 12 \/ rc # 4 \/ rc # 8) THEN "InvalidRegisterCodeError"
         ELSE IF a.kind # "Register" THEN "OperandNotRegisterError"
         ELSE IF b.kind # "LargeImmediate" THEN "OperandNotLongImmediateError"
         ELSE "Ok"

\* validate_instruction: "Ok", the name of the ValidationError returned, or
\* "Panic" when reading the register code panics
validate_instruction(instr) ==
    validate_opcode_class(instr, register_code(instr), instr.operand_a, instr.operand_b)

\* ------------------------------------------------- parsing instructions

OperandPanic(site) == [ok |-> FALSE, err |-> site, operand |-> Register("None")]

OperandOk(operand) == [ok |-> TRUE, err |-> "", operand |-> operand]

\* The match with the value handed to ShortImmediate as it is
immediate_operand_unchecked(opcode, immediate) ==
    IF ~immediate.ok THEN OperandPanic("ParseIntError")
    ELSE IF opcode = "MovI" THEN OperandOk(LargeImmediate(immediate.lo))
    ELSE OperandOk(ShortImmediate(immediate.lo))

\* The match of get_immediate_from_string on the opcode, immediate being the
\* text parsed as a u16: narrowed to u8 unless the opcode is MovI
immediate_operand(opcode, immediate) ==
    IF ~immediate.ok THEN OperandPanic("ParseIntError")
    ELSE IF opcode = "MovI" THEN OperandOk(LargeImmediate(immediate.lo))
    ELSE IF immediate.lo > U8Max.lo THEN OperandPanic("TryFromIntError")
    ELSE OperandOk(ShortImmediate(immediate.lo))

\* get_immediate_from_string: [ok, err, operand].  The text is parsed as a
\* u16, the type both arms of the match fix.
get_immediate_from_string(opcode, original) ==
    immediate_operand(opcode, convert_imm_str_to_unsigned(original, U16Max))

InstrPanic(site) == [ok |-> FALSE, err |-> site, instr |-> NoInstruction]

none_str == <<"n", "o", "n", "e">>

\* The tokens of From<&str> for Instruction: the line split at whitespace,
\* the commas removed
instr_tokens(line) ==
    [i \in 1..Len(split_whitespace(line)) |->
        replace(split_whitespace(line)[i], <<",">>, <<>>)]

\* tokens.get(n).unwrap_or("none"), n counted from 0
token_or_none(tokens, n) == IF Len(tokens) > n THEN tokens[n + 1] ELSE none_str

\* The register the parsed name gives, as the operand or the panic it is
register_operand(reg) ==
    IF reg.ok THEN OperandOk(Register(reg.reg)) ELSE OperandPanic("Register::from")

\* The second operand: an immediate when the token starts with a digit, a
\* register otherwise.  [ok, err, operand]
second_operand(opcode, token) ==
    IF token = <<>> THEN OperandPanic("chars().nth(0)")
    ELSE IF token[1] \in Digits THEN get_immediate_from_string(opcode, token)
    ELSE register_operand(register_from(token))

\* The instruction of the parsed opcode, first register and second operand,
\* the panics in the order the code reaches them
instruction_of(opcode, reg_a, operand_b, sg, fl) ==
    IF ~opcode.ok THEN InstrPanic("Opcode::from")
    ELSE IF ~reg_a.ok THEN InstrPanic("Register::from")
    ELSE IF ~operand_b.ok THEN InstrPanic(operand_b.err)
    ELSE [ok |-> TRUE, err |-> "",
          instr |-> instruction_new(opcode.opcode, Register(reg_a.reg),
                                    operand_b.operand, sg, fl).instr]

instruction_from_tokens(tokens, opcode, sg, fl) ==
    IF Len(tokens) = 0 THEN InstrPanic("tokens.get(0)")
    ELSE instruction_of(opcode, register_from(token_or_none(tokens, 1)),
                        second_operand(opcode.opcode, token_or_none(tokens, 2)), sg, fl)

\* From<&str> for Instruction, given the two flags of the opcode it reads:
\* [ok, err, instr]; ok = FALSE is a panic, err the place that panicked
instruction_from(line, sg, fl) ==
    instruction_from_tokens(instr_tokens(line),
                            opcode_from(token_or_none(instr_tokens(line), 0)), sg, fl)

\* ---------------------------------------------------------- parsing data

DataPanic(site) == [ok |-> FALSE, err |-> site, bytes |-> <<>>]

DataOk(bytes) == [ok |-> TRUE, err |-> "", bytes |-> bytes]

\* The bytes of a parsed number, or the panic of its unwrap
number_bytes(v, bytes) == IF v.ok THEN DataOk(bytes) ELSE DataPanic("ParseIntError")

\* One more byte in front of the bytes of the rest of an array
array_bytes(v, rest) ==
    IF v.ok /\ rest.ok THEN DataOk(<<v.lo>> \o rest.bytes) ELSE DataPanic("ParseIntError")

\* The values of the tokens of an .array line, each read as a u8; ok = FALSE
\* when one of them does not parse
RECURSIVE ArrayBytes(_)
ArrayBytes(tokens) ==
    IF tokens = <<>> THEN DataOk(<<>>)
    ELSE array_bytes(convert_imm_str_to_unsigned(Head(tokens), U8Max),
                     ArrayBytes(Tail(tokens)))

\* The type a directive reads its number as, by its MAX
directive_max(directive) ==
    CASE directive = <<".", "b", "y", "t", "e">> -> U8Max
      [] directive = <<".", "w", "o", "r", "d">> -> U16Max
      [] OTHER -> U32Max

\* The bytes of the number v under a directive: one byte, or the two or four
\* bytes of to_be_bytes
directive_bytes(directive, v) ==
    CASE directive = <<".", "b", "y", "t", "e">> -> <<v.lo>>
      [] directive = <<".", "w", "o", "r", "d">> -> u16_to_be_bytes(v.lo)
      [] OTHER -> u32_to_be_bytes(v.hi, v.lo)

\* The bytes of `text`: line[tick + 1 .. len - 1] and a NUL, tick the index
\* of the first backtick of the line
asciiz_bytes(line, tick) ==
    IF tick = -1 THEN DataPanic("find(backtick)")
    ELSE IF ~SliceOk(line, tick + 1, Len(line) - 1) THEN DataPanic("slice")
    ELSE DataOk([i \in 1..(Len(line) - tick - 2) |-> as_byte(line[tick + 1 + i])]
                  \o <<0>>)

\* The match of From<&str> for Data on the first token
data_from_tokens(line, tokens) ==
    IF Len(tokens) = 0 THEN DataPanic("Insufficient tokens")
    ELSE IF tokens[1] \in {<<".", "b", "y", "t", "e">>, <<".", "w", "o", "r", "d">>,
                           <<".", "l", "o", "n", "g">>}
    THEN IF Len(tokens) < 2 THEN DataPanic("Insufficient tokens")
         ELSE number_bytes(
                 convert_imm_str_to_unsigned(tokens[2], directive_max(tokens[1])),
                 directive_bytes(tokens[1],
                     convert_imm_str_to_unsigned(tokens[2], directive_max(tokens[1]))))
    ELSE IF tokens[1] = <<".", "a", "r", "r", "a", "y">> THEN ArrayBytes(Tail(tokens))
    ELSE IF tokens[1] = <<".", "a", "s", "c", "i", "i", "z">>
    THEN asciiz_bytes(line, find(line, <<Backtick>>))
    ELSE DataPanic("not a valid data instruction type")

\* line.find(":").unwrap_or(0)
label_end(index) == IF index = -1 THEN 0 ELSE index

\* From<&str> for Data: [ok, err, bytes]; ok = FALSE is a panic
data_from(line) ==
    data_from_tokens(line,
        split_whitespace(Slice(line, label_end(find(line, <<":">>)), Len(line))))

\* -------------------------------------------------- pass 2: process_line

\* HashMap<String, usize>: a function from the labels it holds
EmptyTable == [l \in {} |-> 0]

\* HashMap::insert leaving a key that is already there as it is
insert_keep_first(table, label, addr) ==
    [l \in DOMAIN table \cup {label} |-> IF l \in DOMAIN table THEN table[l] ELSE addr]

\* HashMap::insert
insert(table, label, addr) ==
    [l \in DOMAIN table \cup {label} |-> IF l = label THEN addr ELSE table[l]]

LineResult(ok, err, mode, kind, parsed) ==
    [ok |-> ok, err |-> err, data_mode |-> mode, kind |-> kind,
     bytes |-> IF kind = "Data" THEN parsed.bytes ELSE <<>>,
     instr |-> IF kind = "Instruction" THEN parsed.instr ELSE NoInstruction]

\* The replacement of the label alone, its "@" left in the line
replace_label_keep_at(line, label, label_table) ==
    IF label = <<>> THEN [ok |-> FALSE, err |-> "chars().nth(0)", line |-> line]
    ELSE IF ~validate_label(label)
    THEN [ok |-> FALSE, err |-> "LabelInvalidFormat", line |-> line]
    ELSE IF label \notin DOMAIN label_table
    THEN [ok |-> FALSE, err |-> "UnknownLabel", line |-> line]
    ELSE [ok |-> TRUE, err |-> "",
          line |-> replace(line, label, to_string(label_table[label]))]

\* The replacement of the reference @label in the line, label being the
\* text after the "@"
replace_label(line, label, label_table) ==
    IF label = <<>> THEN [ok |-> FALSE, err |-> "chars().nth(0)", line |-> line]
    ELSE IF ~validate_label(label)
    THEN [ok |-> FALSE, err |-> "LabelInvalidFormat", line |-> line]
    ELSE IF label \notin DOMAIN label_table
    THEN [ok |-> FALSE, err |-> "UnknownLabel", line |-> line]
    ELSE [ok |-> TRUE, err |-> "",
          line |-> replace(line, <<"@">> \o label, to_string(label_table[label]))]

\* The text of the line that is parsed: the line, or the line with its
\* @label reference replaced, index being line.find("@").  [ok, err, line]
substitute_at(line, index, label_table) ==
    IF index = -1 THEN [ok |-> TRUE, err |-> "", line |-> line]
    ELSE replace_label(line, Slice(line, index + 1, Len(line)), label_table)

substitute_label(line, label_table) ==
    substitute_at(line, find(line, <<"@">>), label_table)

\* The marker line at which process_line leaves data mode
code_marker == <<"c", "o", "d", "e", ":">>

\* The line after its label is removed, index being line.find(":")
strip_label(line, index) ==
    IF index = -1 THEN line ELSE trim(Slice(line, index + 1, Len(line)))

\* Data::from(line) as the value process_line returns
data_line(data, data_mode) == LineResult(data.ok, data.err, data_mode, "Data", data)

\* Instruction::from(line) and the result of its validate_instruction, as
\* the value process_line returns
instruction_line(parsed, valid, data_mode) ==
    IF ~parsed.ok THEN LineResult(FALSE, parsed.err, data_mode, "Instruction", parsed)
    ELSE IF valid # "Ok" THEN LineResult(FALSE, valid, data_mode, "Instruction", parsed)
    ELSE LineResult(TRUE, "", data_mode, "Instruction", parsed)

\* The parse of the substituted line in the mode the flag gives
parse_line(sub, data_mode, sg, fl) ==
    IF ~sub.ok THEN LineResult(FALSE, sub.err, data_mode, "None", <<>>)
    ELSE IF data_mode THEN data_line(data_from(sub.line), data_mode)
    ELSE instruction_line(instruction_from(sub.line, sg, fl),
                          validate_instruction(instruction_from(sub.line, sg, fl).instr),
                          data_mode)

\* process_line after the test of the marker: line is the line without its
\* label, data_mode the flag as the test left it
process_stripped(line, label_table, data_mode, sg, fl) ==
    IF line = <<>> THEN LineResult(TRUE, "", data_mode, "None", <<>>)
    ELSE parse_line(substitute_label(line, label_table), data_mode, sg, fl)

\* process_line with the marker's assignment made to a copy of the flag
process_line_flag_copy(line, label_table, data_mode, sg, fl) ==
    [process_stripped(strip_label(line, find(line, <<":">>)), label_table,
                      IF line = code_marker THEN FALSE ELSE data_mode, sg, fl)
       EXCEPT !.data_mode = data_mode]

\* process_line, given the flags of the opcode the line names (read only
\* when the line is parsed as an instruction): [ok, err, data_mode, kind,
\* bytes, instr].  kind is "None" (the line was only a label), "Data" or
\* "Instruction"; ok = FALSE is a panic, and kind then tells what the line
\* was being parsed as.  data_mode is the caller's flag after the call.
process_line(line, label_table, data_mode, sg, fl) ==
    process_stripped(strip_label(line, find(line, <<":">>)), label_table,
                     IF line = code_marker THEN FALSE ELSE data_mode, sg, fl)

\* ---------------------------------------------- pass 1: get_label_table

\* The lines both passes read: each line of the file trimmed, the empty ones
\* dropped (the filter_map of get_label_table and of main)
RECURSIVE input_lines(_)
input_lines(file) ==
    IF file = <<>> THEN <<>>
    ELSE IF trim(Head(file)) = <<>> THEN input_lines(Tail(file))
    ELSE <<trim(Head(file))>> \o input_lines(Tail(file))

code_line_base == 22528

data_line_base == 36864

\* The marker get_label_table looks for in a line
code_section == <<".", "c", "o", "d", "e", ":">>

ResolverState(ok, err, table, mode, code, data, label) ==
    [ok |-> ok, err |-> err, lable_table |-> table, data_mode |-> mode,
     code_line_num |-> code, data_line_num |-> data, label |-> label]

\* The match of get_label_table on the first token of a data line: what the
\* line adds to data_line_num, -1 for a panic
data_advance_tokens(line, tokens, tick) ==
    IF Len(tokens) = 0 THEN -1
    ELSE CASE tokens[1] = <<".", "b", "y", "t", "e">> -> 1
           [] tokens[1] = <<".", "w", "o", "r", "d">> -> 2
           [] tokens[1] = <<".", "l", "o", "n", "g">> -> 4
           [] tokens[1] = <<".", "a", "r", "r", "a", "y">> -> Len(tokens) - 1
           [] tokens[1] = <<".", "a", "s", "c", "i", "i", "z">> ->
                IF tick = -1 THEN -1
                ELSE Len(Slice(line, tick, Len(line) - 1)) + 1
           [] OTHER -> -1

\* The text of a data line after its label, index being line.find(":")
data_text(line, index) ==
    IF index # -1 THEN Slice(line, index + 1, Len(line)) ELSE line

\* What a data line adds to data_line_num, -1 for a panic
data_advance(line) ==
    data_advance_tokens(line, split_whitespace(data_text(line, find(line, <<":">>))),
                        find(line, <<Backtick>>))

\* What a code line adds to code_line_num
code_advance(line) ==
    IF contains(to_lowercase(line), <<"m", "o", "v", "i">>) THEN 4 ELSE 2

\* The iteration on a line that is only a label, the line counted as one
\* byte of its section
label_only_advancing(label, here, table, mode, code, data) ==
    IF label = <<>>
    THEN ResolverState(FALSE, "chars().nth(0)", table, mode, code, data, <<>>)
    ELSE IF ~validate_label(label)
    THEN ResolverState(FALSE, "LabelInvalidFormat", table, mode, code, data, <<>>)
    ELSE ResolverState(TRUE, "", insert(table, label, here), mode,
                       IF mode THEN code ELSE code + 1,
                       IF mode THEN data + 1 ELSE data, label)

\* The iteration on a line that is only a label
label_only(label, here, table, mode, code, data) ==
    IF label = <<>>
    THEN ResolverState(FALSE, "chars().nth(0)", table, mode, code, data, <<>>)
    ELSE IF ~validate_label(label)
    THEN ResolverState(FALSE, "LabelInvalidFormat", table, mode, code, data, <<>>)
    ELSE ResolverState(TRUE, "", insert(table, label, here), mode, code, data, label)

\* The advance of the line number of the section the line is in, table and
\* label being the table and the label after the line's label was read
advance(line, advanced, table, mode, code, data, label) ==
    IF mode
    THEN IF advanced = -1
         THEN ResolverState(FALSE, "not a valid datatype", table, mode, code, data, label)
         ELSE ResolverState(TRUE, "", table, mode, code, data + advanced, label)
    ELSE ResolverState(TRUE, "", table, mode, code + code_advance(line), data, label)

\* The iteration on a line that holds data or an instruction, index being
\* line.find(":") and label the text before it
label_and_rest(line, index, label, here, table, mode, code, data) ==
    IF index = -1
    THEN advance(line, data_advance(line), table, mode, code, data, <<>>)
    ELSE IF label = <<>>
    THEN ResolverState(FALSE, "chars().nth(0)", table, mode, code, data, <<>>)
    ELSE IF ~validate_label(label)
    THEN ResolverState(FALSE, "LabelInvalidFormat", table, mode, code, data, <<>>)
    ELSE advance(line, data_advance(line), insert(table, label, here), mode, code, data,
                 label)

\* The line number a label of the current section gets
current_line_num(mode, code, data) == IF mode THEN data ELSE code

\* One iteration of the loop of get_label_table over a line, from the
\* locals lable_table, data_mode, code_line_num and data_line_num: the locals
\* after it, ok = FALSE for a panic, and label, the label the iteration
\* inserted (<<>> when it inserted none)
label_table_line(line, table, mode, code, data) ==
    IF contains(line, code_section)
    THEN ResolverState(TRUE, "", table, FALSE, code, data, <<>>)
    ELSE IF ends_with(line, <<":">>)
    THEN label_only(Slice(line, 0, Len(line) - 1), current_line_num(mode, code, data),
                    table, mode, code, data)
    ELSE label_and_rest(line, find(line, <<":">>),
                        Slice(line, 0, label_end(find(line, <<":">>))),
                        current_line_num(mode, code, data), table, mode, code, data)

\* ================================================================ state

VARIABLES
    file,               \* the lines of the input file
    pc,                 \* where main is: "get_label_table", "translate",
                        \* "done", "panicked"; "unit" outside main
    panic,              \* the place that panicked, "" while none has
    \* get_label_table
    lable_table,        \* the table being built
    resolver_data_mode, \* its data_mode
    code_line_num,
    data_line_num,
    resolver_next,      \* the index of the line its loop reads next
    recorded,           \* history: the insertions into lable_table, in order
    \* main
    label_table,        \* the table get_label_table returned
    data_mode,          \* the flag handed to process_line (main.rs:36)
    next_line,          \* the index of the line the iterator reads next
    translated,         \* history: each process_line call, as [line, mode,
                        \* result]: the line's index, the flag before the
                        \* call and the value or panic the call gave
    bytes,              \* the bytes gathered for the output
    emitter_data_mode,  \* the second data_mode of main (main.rs:50)
    output,             \* the output file: [created, bytes]
    \* one instruction, built, validated and encoded on its own
    stage,              \* "start", "new", "validated", "encoded"
    built,              \* the result of Instruction::new
    validity,           \* the result of validate_instruction
    binary,             \* the result of the conversion to InstrType
    \* one text, parsed on its own
    subject,            \* what the text is parsed as: "immediate", "data",
                        \* "register", or "reg_code" for a pair of registers
                        \* that is packed; "none" outside such a parse
    given,              \* the input of the call: the text, and what it was
                        \* written to denote
    parsed              \* the result of the parse

vars ==
    <<file, pc, panic, lable_table, resolver_data_mode, code_line_num,
      data_line_num, resolver_next, recorded, label_table, data_mode, next_line,
      translated, bytes, emitter_data_mode, output, stage, built, validity,
      binary, subject, given, parsed>>

resolver_vars ==
    <<lable_table, resolver_data_mode, code_line_num, data_line_num,
      resolver_next, recorded>>

main_vars ==
    <<label_table, data_mode, next_line, translated, bytes, emitter_data_mode,
      output>>

instr_vars == <<stage, built, validity, binary>>

parse_vars == <<subject, given, parsed>>

\* ------------------------------------------------------------------ bounds

\* the most lines a file has
MaxLines == 3

\* The lines a file given to main is made of (a backtick is shown as ')
ResolverLines ==
    {
      \* .byte 5
      <<".", "b", "y", "t", "e", " ", "5">>,
      \* x: .byte 7
      <<"x", ":", " ", ".", "b", "y", "t", "e", " ", "7">>,
      \* w: .word 0x1F4
      <<"w", ":", " ", ".", "w", "o", "r", "d", " ", "0", "x", "1", "F", "4">>,
      \* l: .long 70000
      <<"l", ":", " ", ".", "l", "o", "n", "g", " ", "7", "0", "0", "0", "0">>,
      \* r: .array 1 2 3
      <<"r", ":", " ", ".", "a", "r", "r", "a", "y", " ", "1", " ", "2", " ", "3">>,
      \* s: .asciiz 'Hi'
      <<"s", ":", " ", ".", "a", "s", "c", "i", "i", "z", " ", Backtick, "H", "i", Backtick>>,
      \* b:
      <<"b", ":">>,
      \* .code:
      <<".", "c", "o", "d", "e", ":">>,
      \* code:
      <<"c", "o", "d", "e", ":">>,
      \* movi ax, 700
      <<"m", "o", "v", "i", " ", "a", "x", ",", " ", "7", "0", "0">>,
      \* movie: nop
      <<"m", "o", "v", "i", "e", ":", " ", "n", "o", "p">>,
      \* add ax, bx
      <<"a", "d", "d", " ", "a", "x", ",", " ", "b", "x">>,
      \* .word @b
      <<".", "w", "o", "r", "d", " ", "@", "b">>,
      \* w: .word @b
      <<"w", ":", " ", ".", "w", "o", "r", "d", " ", "@", "b">>,
      \* 1x: .byte 1
      <<"1", "x", ":", " ", ".", "b", "y", "t", "e", " ", "1">>,
      \* b@:
      <<"b", "@", ":">>,
      \* :
      <<":">>,
      \* (a blank line)
      <<" ", " ">>
    }

\* The lines of the files pass 2 is started on with a table of its own
TranslatorLines ==
    {
      \* .byte 5
      <<".", "b", "y", "t", "e", " ", "5">>,
      \* s: .asciiz 'Hi'
      <<"s", ":", " ", ".", "a", "s", "c", "i", "i", "z", " ", Backtick, "H", "i", Backtick>>,
      \* .word @b
      <<".", "w", "o", "r", "d", " ", "@", "b">>,
      \* code:
      <<"c", "o", "d", "e", ":">>,
      \* .code:
      <<".", "c", "o", "d", "e", ":">>,
      \* MovI cx, @b
      <<"M", "o", "v", "I", " ", "c", "x", ",", " ", "@", "b">>,
      \* x: movi ax, @zz
      <<"x", ":", " ", "m", "o", "v", "i", " ", "a", "x", ",", " ", "@", "z", "z">>,
      \* add ax, bx
      <<"a", "d", "d", " ", "a", "x", ",", " ", "b", "x">>,
      \* in dl, 5
      <<"i", "n", " ", "d", "l", ",", " ", "5">>,
      \* add ax, bl
      <<"a", "d", "d", " ", "a", "x", ",", " ", "b", "l">>,
      \*  sub bx, cx
      <<" ", "s", "u", "b", " ", "b", "x", ",", " ", "c", "x">>,
      \* .asciiz 'a:b'
      <<".", "a", "s", "c", "i", "i", "z", " ", Backtick, "a", ":", "b", Backtick>>
    }

\* The files of at most MaxLines lines over a set of lines
Files(lines) == UNION {[1..n -> lines] : n \in 0..MaxLines}

\* The label tables pass 2 is started with on its own
TranslatorTables ==
    {insert(EmptyTable, <<"b">>, 36866), insert(EmptyTable, <<"b">>, 12)}

\* The operands an instruction is built from
ShortImmediates == {0, 5, 8, 31, 32, 255}

LargeImmediates == {0, 700, 65535}

FirstOperands ==
    {Register(r) : r \in Registers} \cup {ShortImmediate(5), LargeImmediate(700)}

SecondOperands ==
    {Register(r) : r \in Registers}
      \cup {ShortImmediate(v) : v \in ShortImmediates}
      \cup {LargeImmediate(v) : v \in LargeImmediates}

\* ------------------------------------------------------------------- Init

NoBinary == [ok |-> FALSE, type |-> "None", hi |-> 0, lo |-> 0]

ResolverIdle ==
    /\ lable_table = EmptyTable
    /\ resolver_data_mode = TRUE
    /\ code_line_num = code_line_base
    /\ data_line_num = data_line_base
    /\ resolver_next = 1
    /\ recorded = <<>>

MainIdle ==
    /\ label_table = EmptyTable
    /\ data_mode = TRUE
    /\ next_line = 1
    /\ translated = <<>>
    /\ bytes = <<>>
    /\ emitter_data_mode = TRUE
    /\ output = [created |-> FALSE, bytes |-> <<>>]

InstrIdle ==
    /\ stage = "start"
    /\ built = [ok |-> FALSE, instr |-> NoInstruction]
    /\ validity = ""
    /\ binary = NoBinary

\* Nothing is being parsed on its own
ParseIdle ==
    /\ subject = "none"
    /\ given = <<>>
    /\ parsed = <<>>

\* main is started on a file
Init ==
    /\ file \in Files(ResolverLines)
    /\ pc = "get_label_table"
    /\ panic = ""
    /\ ResolverIdle
    /\ MainIdle
    /\ InstrIdle
    /\ ParseIdle

\* ------------------------------------------------------------ main: pass 1

\* the loop stopping one line short of the last
LabelTableDoneEarly == resolver_next >= Len(input_lines(file))

\* the loop of get_label_table has read every line
LabelTableDone == resolver_next > Len(input_lines(file))

\* One iteration of the loop of get_label_table
ResolveLine ==
    /\ pc = "get_label_table"
    /\ resolver_next <= Len(input_lines(file))
    /\ \E after \in {label_table_line(input_lines(file)[resolver_next], lable_table,
                                      resolver_data_mode, code_line_num, data_line_num)} :
          /\ lable_table' = after.lable_table
          /\ resolver_data_mode' = after.data_mode
          /\ code_line_num' = after.code_line_num
          /\ data_line_num' = after.data_line_num
          /\ recorded' =
                IF after.label # <<>>
                THEN Append(recorded,
                            [label |-> after.label,
                             addr |-> after.lable_table[after.label],
                             line |-> resolver_next,
                             data |-> resolver_data_mode])
                ELSE recorded
          /\ IF after.ok
             THEN /\ resolver_next' = resolver_next + 1
                  /\ UNCHANGED <<pc, panic>>
             ELSE /\ pc' = "panicked"
                  /\ panic' = after.err
                  /\ UNCHANGED resolver_next
    /\ UNCHANGED <<file, main_vars, instr_vars, parse_vars>>

data_marker_bytes == <<46, 100, 97, 116, 97, 58>>

\* get_label_table returns its table; main rewinds the file, sets the flag
\* of pass 2, creates and truncates the output file and starts the bytes
\* with ".data:" (main.rs:33-50)
StartTranslation ==
    /\ pc = "get_label_table"
    /\ LabelTableDone
    /\ pc' = "translate"
    /\ label_table' = lable_table
    /\ data_mode' = TRUE
    /\ next_line' = 1
    /\ output' = [created |-> TRUE, bytes |-> <<>>]
    /\ bytes' = data_marker_bytes
    /\ emitter_data_mode' = TRUE
    /\ UNCHANGED <<file, panic, resolver_vars, translated, instr_vars, parse_vars>>

\* ------------------------------------------------- main: pass 2 and emitter

\* as_bytes of ".code:"
code_marker_bytes == [i \in 1..Len(code_section) |-> as_byte(code_section[i])]

\* The bytes of an InstrType: to_be_bytes of its u16 or of its u32
instr_bytes(encoded) ==
    IF encoded.type = "Regular" THEN u16_to_be_bytes(encoded.lo)
    ELSE u32_to_be_bytes(encoded.hi, encoded.lo)

\* The Instruction arm of the loop, bytes1 being the bytes after the test of
\* data_mode and encoded the instruction's InstrType
emit_instruction(encoded, bytes1) ==
    IF ~encoded.ok THEN [ok |-> FALSE, bytes |-> bytes1, data_mode |-> FALSE]
    ELSE [ok |-> TRUE, bytes |-> bytes1 \o instr_bytes(encoded), data_mode |-> FALSE]

\* The body of the loop with data_mode left as it was after an instruction
emit_marker_each(value, bytes0, mode0) ==
    IF value.kind = "Data"
    THEN [ok |-> TRUE, bytes |-> bytes0 \o value.bytes, data_mode |-> mode0]
    ELSE [emit_instruction(instruction_into(value.instr),
                           IF mode0 THEN bytes0 \o code_marker_bytes ELSE bytes0)
            EXCEPT !.data_mode = mode0]

\* The body of the for loop of main over one value of the iterator, from the
\* locals bytes and data_mode (main.rs:50-70): [ok, bytes, data_mode]
emit(value, bytes0, mode0) ==
    IF value.kind = "Data"
    THEN [ok |-> TRUE, bytes |-> bytes0 \o value.bytes, data_mode |-> mode0]
    ELSE emit_instruction(instruction_into(value.instr),
                          IF mode0 THEN bytes0 \o code_marker_bytes ELSE bytes0)

\* The flags Instruction::new reads of the opcode a line names: those of the
\* opcode's table when the line gives an instruction, and not read (FALSE
\* here) otherwise
FlagsFit(result, sg, fl) ==
    IF result.kind = "Instruction" /\ result.instr # NoInstruction
    THEN sg \in is_signed(result.instr.opcode) /\ fl \in set_flags(result.instr.opcode)
    ELSE ~sg /\ ~fl

\* The iterator of main yields its next value: process_line on the next line
\* and, when it returns a value, the body of the for loop on that value
TranslateLine ==
    /\ pc = "translate"
    /\ next_line <= Len(input_lines(file))
    /\ \E sg, fl \in BOOLEAN :
         \E result \in {process_line(input_lines(file)[next_line], label_table,
                                     data_mode, sg, fl)} :
           \E emitted \in {emit(result, bytes, emitter_data_mode)} :
            /\ FlagsFit(result, sg, fl)
            /\ data_mode' = result.data_mode
            /\ translated' = Append(translated, [line |-> next_line, mode |-> data_mode,
                                                 result |-> result])
            /\ IF ~result.ok
               THEN /\ pc' = "panicked"
                    /\ panic' = result.err
                    /\ UNCHANGED <<next_line, bytes, emitter_data_mode>>
               ELSE IF result.kind = "None"
               THEN /\ next_line' = next_line + 1
                    /\ UNCHANGED <<pc, panic, bytes, emitter_data_mode>>
               ELSE /\ bytes' = emitted.bytes
                    /\ emitter_data_mode' = emitted.data_mode
                    /\ IF emitted.ok
                       THEN /\ next_line' = next_line + 1
                            /\ UNCHANGED <<pc, panic>>
                       ELSE /\ pc' = "panicked"
                            /\ panic' = "Cannot convert register to u8"
                            /\ UNCHANGED next_line
    /\ UNCHANGED <<file, resolver_vars, label_table, output, instr_vars, parse_vars>>

\* write_all run on the bytes gathered so far when the translation has
\* panicked, too
WriteAllAnyway ==
    /\ \/ pc = "translate" /\ next_line > Len(input_lines(file))
       \/ pc = "panicked"
    /\ pc' = "done"
    /\ output' = [created |-> TRUE, bytes |-> bytes]
    /\ UNCHANGED <<file, panic, resolver_vars, label_table, data_mode, next_line,
                   translated, bytes, emitter_data_mode, instr_vars, parse_vars>>

\* The iterator is exhausted: writer.write_all(&bytes)
WriteAll ==
    /\ pc = "translate"
    /\ next_line > Len(input_lines(file))
    /\ pc' = "done"
    /\ output' = [created |-> TRUE, bytes |-> bytes]
    /\ UNCHANGED <<file, panic, resolver_vars, label_table, data_mode, next_line,
                   translated, bytes, emitter_data_mode, instr_vars, parse_vars>>

Next ==
    \/ ResolveLine
    \/ StartTranslation
    \/ TranslateLine
    \/ WriteAll

\* main, run on a file
Spec == Init /\ [][Next]_vars

\* --------------------------------------------------- pass 2 on its own

\* main at the point where pass 2 starts (main.rs:36-50), the table that
\* get_label_table returned being any of TranslatorTables
InitTranslate ==
    /\ file \in Files(TranslatorLines)
    /\ pc = "translate"
    /\ panic = ""
    /\ ResolverIdle
    /\ label_table \in TranslatorTables
    /\ data_mode = TRUE
    /\ next_line = 1
    /\ translated = <<>>
    /\ bytes = data_marker_bytes
    /\ emitter_data_mode = TRUE
    /\ output = [created |-> TRUE, bytes |-> <<>>]
    /\ InstrIdle
    /\ ParseIdle

NextTranslate ==
    \/ TranslateLine
    \/ WriteAll

SpecTranslate == InitTranslate /\ [][NextTranslate]_vars

\* ------------------------------------------- one instruction on its own

InitInstr ==
    /\ file = <<>>
    /\ pc = "unit"
    /\ panic = ""
    /\ ResolverIdle
    /\ MainIdle
    /\ InstrIdle
    /\ ParseIdle

\* Instruction::new on an opcode and two operands
NewInstruction ==
    /\ pc = "unit"
    /\ stage = "start"
    /\ \E opcode \in OpcodeSet, operand_a \in FirstOperands, operand_b \in SecondOperands :
         \E sg \in is_signed(opcode), fl \in set_flags(opcode) :
            /\ built' = instruction_new(opcode, operand_a, operand_b, sg, fl)
            /\ given' = [opcode |-> opcode, operand_a |-> operand_a,
                         operand_b |-> operand_b]
    /\ stage' = "new"
    /\ UNCHANGED <<file, pc, panic, resolver_vars, main_vars, validity, binary,
                   subject, parsed>>

\* validate_instruction on the instruction built
Validate ==
    /\ pc = "unit"
    /\ stage = "new"
    /\ built.ok
    /\ validity' = validate_instruction(built.instr)
    /\ stage' = "validated"
    /\ UNCHANGED <<file, pc, panic, resolver_vars, main_vars, built, binary, parse_vars>>

\* The conversion of the instruction built to its InstrType
Encode ==
    /\ pc = "unit"
    /\ stage = "new"
    /\ built.ok
    /\ binary' = instruction_into(built.instr)
    /\ stage' = "encoded"
    /\ UNCHANGED <<file, pc, panic, resolver_vars, main_vars, built, validity, parse_vars>>

NextInstr ==
    \/ NewInstruction
    \/ Validate
    \/ Encode

SpecInstr == InitInstr /\ [][NextInstr]_vars

\* ------------------------------------------------- one text on its own

\* The digits of n in a radix, written with the digit characters chars
RECURSIVE radix_text(_, _, _)
radix_text(n, radix, chars) ==
    IF n < radix THEN <<chars[n + 1]>>
    ELSE Append(radix_text(n \div radix, radix, chars), chars[(n % radix) + 1])

\* A number text and the value it was written to denote: hi * 2^16 + lo, or,
\* with over, a value past 2^32 - 1
Numeral(text, hi, lo, over) == [text |-> text, hi |-> hi, lo |-> lo, over |-> over]

\* The values number texts are written for, around the limits of u8 and u16
NumeralValues == {0, 5, 31, 32, 255, 256, 700, 65535, 65536, 70000}

\* The texts of a value: decimal, 0x with either case of digit, and 0b
NumeralsOf(v) ==
    {Numeral(text, v \div 65536, v % 65536, FALSE) :
        text \in {radix_text(v, 10, LowerDigitChars),
                  <<"0", "x">> \o radix_text(v, 16, LowerDigitChars),
                  <<"0", "x">> \o radix_text(v, 16, UpperDigitChars),
                  <<"0", "b">> \o radix_text(v, 2, LowerDigitChars)}}

\* Texts around the limit of u32: 0x12345678, 4294967295, 0xFFFFFFFF,
\* 4294967296, 0x100000000 and 7000000000
LongNumerals ==
    {Numeral(<<"0", "x", "1", "2", "3", "4", "5", "6", "7", "8">>, 4660, 22136, FALSE),
     Numeral(<<"4", "2", "9", "4", "9", "6", "7", "2", "9", "5">>, 65535, 65535, FALSE),
     Numeral(<<"0", "x", "F", "F", "F", "F", "F", "F", "F", "F">>, 65535, 65535, FALSE),
     Numeral(<<"4", "2", "9", "4", "9", "6", "7", "2", "9", "6">>, 0, 0, TRUE),
     Numeral(<<"0", "x", "1", "0", "0", "0", "0", "0", "0", "0", "0">>, 0, 0, TRUE),
     Numeral(<<"7", "0", "0", "0", "0", "0", "0", "0", "0", "0">>, 0, 0, TRUE)}

Numerals == UNION {NumeralsOf(v) : v \in NumeralValues} \cup LongNumerals

\* The instruction lines "<mnemonic> ax, <number>", one for each opcode and
\* number text
ImmediateInputs ==
    {[opcode |-> Opcodes[i],
      line |-> Mnemonics[i] \o <<" ", "a", "x", ",", " ">> \o n.text,
      value |-> n] : i \in 1..Len(Opcodes), n \in Numerals}

\* The directives that take one number
NumberDirectives ==
    {<<".", "b", "y", "t", "e">>, <<".", "w", "o", "r", "d">>, <<".", "l", "o", "n", "g">>}

\* The lines "<directive> <number>"
NumberInputs ==
    {[directive |-> d, line |-> d \o <<" ">> \o n.text, values |-> <<n>>, text |-> <<>>] :
        d \in NumberDirectives, n \in Numerals}

\* The most values an .array line is given
MaxArray == 2

\* The number texts of the values of an array: 5, 0xAC, 0b11001100 and 256
ArrayNumerals ==
    {Numeral(<<"5">>, 0, 5, FALSE),
     Numeral(<<"0", "x", "A", "C">>, 0, 172, FALSE),
     Numeral(<<"0", "b", "1", "1", "0", "0", "1", "1", "0", "0">>, 0, 204, FALSE),
     Numeral(<<"2", "5", "6">>, 0, 256, FALSE)}

\* The text of an .array line after its directive
RECURSIVE array_text(_)
array_text(values) ==
    IF values = <<>> THEN <<>>
    ELSE <<" ">> \o Head(values).text \o array_text(Tail(values))

\* The lines ".array <number> ..." of at most MaxArray values
ArrayInputs ==
    {[directive |-> <<".", "a", "r", "r", "a", "y">>,
      line |-> <<".", "a", "r", "r", "a", "y">> \o array_text(values),
      values |-> values, text |-> <<>>] :
        values \in UNION {[1..n -> ArrayNumerals] : n \in 0..MaxArray}}

\* The texts of .asciiz lines: the empty text, Hi, Hey you! and a:b
AsciizTexts ==
    {<<>>, <<"H", "i">>, <<"H", "e", "y", " ", "y", "o", "u", "!">>, <<"a", ":", "b">>}

\* The lines ".asciiz `text`"
AsciizInputs ==
    {[directive |-> <<".", "a", "s", "c", "i", "i", "z">>,
      line |-> <<".", "a", "s", "c", "i", "i", "z", " ", Backtick>> \o text \o <<Backtick>>,
      values |-> <<>>, text |-> text] : text \in AsciizTexts}

\* Lines whose first token is no directive: .bad 70, .BYTE 5, byte 5, .words 5
OtherInputs ==
    {[directive |-> <<>>, line |-> line, values |-> <<>>, text |-> <<>>] :
        line \in {<<".", "b", "a", "d", " ", "7", "0">>,
                  <<".", "B", "Y", "T", "E", " ", "5">>,
                  <<"b", "y", "t", "e", " ", "5">>,
                  <<".", "w", "o", "r", "d", "s", " ", "5">>}}

DataInputs == NumberInputs \cup ArrayInputs \cup AsciizInputs \cup OtherInputs

\* A letter in upper case
to_uppercase_char(c) ==
    IF c \in LowerLetters
    THEN UpperAlphabet[CHOOSE i \in 1..Len(LowerAlphabet) : LowerAlphabet[i] = c]
    ELSE c

\* The ways a name is written: lower case, upper case, and either letter
\* alone in upper case
Spellings(name) ==
    {name,
     [i \in 1..Len(name) |-> to_uppercase_char(name[i])],
     [i \in 1..Len(name) |-> IF i = 1 THEN to_uppercase_char(name[i]) ELSE name[i]],
     [i \in 1..Len(name) |-> IF i = 1 THEN name[i] ELSE to_uppercase_char(name[i])]}

\* Texts that are no register name: st (the status flags), the empty text,
\* a, axx, xa, ip, non, flags, a x
OtherNames ==
    {<<"s", "t">>, <<"S", "T">>, <<"S", "t">>, <<>>, <<"a">>, <<"a", "x", "x">>,
     <<"x", "a">>, <<"i", "p">>, <<"n", "o", "n">>, <<"f", "l", "a", "g", "s">>,
     <<"a", " ", "x">>}

\* A text handed to Register::from, and the name it is a spelling of (<<>>
\* when it is none)
RegisterInputs ==
    UNION {{[line |-> text, name |-> RegisterNames[i]] :
               text \in Spellings(RegisterNames[i])} : i \in 1..Len(RegisterNames)}
      \cup {[line |-> text, name |-> <<>>] : text \in OtherNames}

\* The pairs of register operands handed to Register::get_reg_code
RegisterPairs ==
    {[operand_a |-> Register(a), operand_b |-> Register(b)] : a, b \in Registers}

\* A text is about to be parsed as one of the three subjects, or a pair of
\* registers to be packed
InitParse ==
    /\ file = <<>>
    /\ pc = "parse"
    /\ panic = ""
    /\ ResolverIdle
    /\ MainIdle
    /\ InstrIdle
    /\ parsed = <<>>
    /\ \/ subject = "immediate" /\ given \in ImmediateInputs
       \/ subject = "data" /\ given \in DataInputs
       \/ subject = "register" /\ given \in RegisterInputs
       \/ subject = "reg_code" /\ given \in RegisterPairs

\* Instruction::from on a line whose third token is a number
ParseImmediate ==
    /\ pc = "parse"
    /\ subject = "immediate"
    /\ stage = "start"
    /\ \E sg \in is_signed(given.opcode), fl \in set_flags(given.opcode) :
          parsed' = instruction_from(given.line, sg, fl)
    /\ stage' = "parsed"
    /\ UNCHANGED <<file, pc, panic, resolver_vars, main_vars, built, validity, binary,
                   subject, given>>

\* Data::from on a line
ParseData ==
    /\ pc = "parse"
    /\ subject = "data"
    /\ stage = "start"
    /\ parsed' = data_from(given.line)
    /\ stage' = "parsed"
    /\ UNCHANGED <<file, pc, panic, resolver_vars, main_vars, built, validity, binary,
                   subject, given>>

\* The register a text names and its conversion to u16: [ok, reg, code]; ok
\* = FALSE is the panic of Register::from, code = -1 the panic of the
\* conversion
register_code_of(reg) ==
    [ok |-> reg.ok, reg |-> reg.reg,
     code |-> IF reg.ok THEN register_into_u16(reg.reg) ELSE -1]

\* Register::from on a text, then the conversion of the register to u16
ParseRegister ==
    /\ pc = "parse"
    /\ subject = "register"
    /\ stage = "start"
    /\ parsed' = register_code_of(register_from(given.line))
    /\ stage' = "parsed"
    /\ UNCHANGED <<file, pc, panic, resolver_vars, main_vars, built, validity, binary,
                   subject, given>>

\* Register::get_reg_code on a pair of operands: [code], -1 its panic
PackRegisters ==
    /\ pc = "parse"
    /\ subject = "reg_code"
    /\ stage = "start"
    /\ parsed' = [code |-> get_reg_code(given.operand_a, given.operand_b)]
    /\ stage' = "parsed"
    /\ UNCHANGED <<file, pc, panic, resolver_vars, main_vars, built, validity, binary,
                   subject, given>>

NextParse ==
    \/ ParseImmediate
    \/ ParseData
    \/ ParseRegister
    \/ PackRegisters

SpecParse == InitParse /\ [][NextParse]_vars

\* ================================================================ claims

\* ------------------------------------------------- the layout of a word

\* bits hi..lo of w, as a number
Bits(w, hi, lo) == (w \div (2 ^ lo)) % (2 ^ (hi - lo + 1))

\* a | b on 16-bit words, bit by bit
WordOr(a, b) ==
    LET bit(k) == IF Bits(a, k, k) = 1 \/ Bits(b, k, k) = 1 THEN 2 ^ k ELSE 0
    IN bit(0) + bit(1) + bit(2) + bit(3) + bit(4) + bit(5) + bit(6) + bit(7)
         + bit(8) + bit(9) + bit(10) + bit(11) + bit(12) + bit(13) + bit(14) + bit(15)

\* The family code of a register that has one
FamilyCode ==
    [r \in Registers \ {"St", "Pc"} |->
        CASE r \in {"None", "Ax", "Ah", "Al"} -> 0
          [] r \in {"Bx", "Bh", "Bl"} -> 1
          [] r \in {"Cx", "Ch", "Cl"} -> 2
          [] r \in {"Dx", "Dh", "Dl"} -> 3
          [] r = "Rp" -> 4
          [] r = "Fp" -> 5
          [] r = "Bp" -> 6
          [] r = "Sp" -> 7]

\* An operand that has an operand code: an immediate, or a register other
\* than St and Pc
HasCode(operand) == operand.kind = "Register" => operand.reg \in DOMAIN FamilyCode

OperandCode(operand) ==
    IF operand.kind = "Register" THEN FamilyCode[operand.reg] ELSE operand.imm

\* The 6-bit code of an opcode: its place in the enum, from 0
OpcodeCode(opcode) == (CHOOSE i \in 1..Len(Opcodes) : Opcodes[i] = opcode) - 1

Flag(b) == IF b THEN 1 ELSE 0

\* The header of an instruction, bits 15-6 of its word
Header(instr) ==
    OpcodeCode(instr.opcode) * 1024 + Flag(instr.high) * 512 + Flag(instr.low) * 256
      + Flag(instr.set_flags) * 128 + Flag(instr.signed) * 64

\* The instruction built has been encoded, and both operands have a code
Encoded ==
    /\ stage = "encoded"
    /\ HasCode(built.instr.operand_a)
    /\ HasCode(built.instr.operand_b)

\* The instruction built is opcode, operand_a, operand_b
Built(opcode, operand_a, operand_b) ==
    /\ built.ok
    /\ built.instr.opcode = opcode
    /\ built.instr.operand_a = operand_a
    /\ built.instr.operand_b = operand_b

\* C1: an instruction whose operand_b is a Register or a ShortImmediate is
\* encoded as the Regular word (opcode << 10) | (high << 9) | (low << 8) |
\* (set_flags << 7) | (signed << 6) | (code of operand_a << 3) | (code of
\* operand_b); Nop gives 0x0000, Add Ax, Bx 0x07C1, Addc Ax 0x0F80 and
\* In Dl, 5 0x4D1D.
C1_RegularWord ==
    /\ (Encoded /\ built.instr.operand_b.kind \in {"Register", "ShortImmediate"})
         => binary = [ok |-> TRUE, type |-> "Regular", hi |-> 0,
                      lo |-> WordOr(Header(built.instr),
                                    WordOr(OperandCode(built.instr.operand_a) * 8,
                                           OperandCode(built.instr.operand_b)))]
    /\ (Encoded /\ Built("Nop", Register("None"), Register("None"))) => binary.lo = 0
    /\ (Encoded /\ Built("Add", Register("Ax"), Register("Bx"))) => binary.lo = 1985
    /\ (Encoded /\ Built("Addc", Register("Ax"), Register("None"))) => binary.lo = 3968
    /\ (Encoded /\ Built("In", Register("Dl"), ShortImmediate(5))) => binary.lo = 19741

\* In Dl, 5 has been encoded as 0x4D1D
C1_Witness ==
    /\ Encoded
    /\ Built("In", Register("Dl"), ShortImmediate(5))
    /\ binary = [ok |-> TRUE, type |-> "Regular", hi |-> 0, lo |-> 19741]

\* C2: an instruction whose operand_b is LargeImmediate(v) is encoded as a
\* Long word whose lower 16 bits are v and whose upper 16 bits are the
\* header | the code of operand_a; MovI Sp, 700 gives 0x5B0702BC.
C2_LongWord ==
    /\ (Encoded /\ built.instr.operand_b.kind = "LargeImmediate")
         => binary = [ok |-> TRUE, type |-> "Long",
                      hi |-> WordOr(Header(built.instr),
                                    OperandCode(built.instr.operand_a)),
                      lo |-> built.instr.operand_b.imm]
    /\ (Encoded /\ Built("MovI", Register("Sp"), LargeImmediate(700)))
         => binary.hi = 23303 /\ binary.lo = 700

\* MovI Sp, 700 has been encoded as 0x5B07 0x02BC
C2_Witness ==
    /\ Encoded
    /\ Built("MovI", Register("Sp"), LargeImmediate(700))
    /\ binary = [ok |-> TRUE, type |-> "Long", hi |-> 23303, lo |-> 700]

\* C3: decoding the Regular word of an instruction whose operand_b is a
\* Register or a ShortImmediate of 0..31 by the layout (bits 15-10 opcode,
\* 9 high, 8 low, 7 set_flags, 6 signed, 5-3 operand_a, the low bits
\* operand_b) gives back the opcode, the flags and the two operand codes.
\* The low bits of an immediate are read as bits 4-0 or as bits 2-0,
\* whichever gives the immediate back.
C3_RoundTrip ==
    (/\ Encoded
     /\ binary.type = "Regular"
     /\ (built.instr.operand_b.kind = "ShortImmediate"
           => built.instr.operand_b.imm <= 31))
      => /\ Bits(binary.lo, 15, 10) = OpcodeCode(built.instr.opcode)
         /\ Bits(binary.lo, 9, 9) = Flag(built.instr.high)
         /\ Bits(binary.lo, 8, 8) = Flag(built.instr.low)
         /\ Bits(binary.lo, 7, 7) = Flag(built.instr.set_flags)
         /\ Bits(binary.lo, 6, 6) = Flag(built.instr.signed)
         /\ Bits(binary.lo, 5, 3) = OperandCode(built.instr.operand_a)
         /\ IF built.instr.operand_b.kind = "Register"
            THEN Bits(binary.lo, 2, 0) = OperandCode(built.instr.operand_b)
            ELSE \/ Bits(binary.lo, 4, 0) = OperandCode(built.instr.operand_b)
                 \/ Bits(binary.lo, 2, 0) = OperandCode(built.instr.operand_b)

\* The operands of an instruction are two registers of one width class
SameWidthClass(instr) ==
    /\ instr.operand_a.kind = "Register"
    /\ instr.operand_b.kind = "Register"
    /\ \/ {instr.operand_a.reg, instr.operand_b.reg} \subseteq FullRegisters
       \/ {instr.operand_a.reg, instr.operand_b.reg} \subseteq HighRegisters
       \/ {instr.operand_a.reg, instr.operand_b.reg} \subseteq LowRegisters

\* C10: an instruction of a TwoRegister opcode is valid if and only if its
\* operands are two registers of one width class (both full-width, both
\* high halves or both low halves).
C10_TwoRegisterValid ==
    (stage = "validated" /\ built.instr.opcode \in TwoRegisterOpcodes)
      => (validity = "Ok" <=> SameWidthClass(built.instr))

\* Sub Ah, Dh has been validated and accepted
C10_Witness ==
    /\ stage = "validated"
    /\ Built("Sub", Register("Ah"), Register("Dh"))
    /\ validity = "Ok"

\* --------------------------------------------------- the opcode classes

\* The values the 4-bit register code of an instruction can have
RegisterCodes == 0..15

\* What validate_instruction returns for the instruction built when the
\* register code it reads is rc
ValidityWith(rc) ==
    validate_opcode_class(built.instr, rc, built.instr.operand_a, built.instr.operand_b)

\* The instruction built has been validated; the result is the one of its
\* register code, or the panic of reading that code (St or Pc as an operand)
Validated ==
    /\ stage = "validated"
    /\ validity \in {ValidityWith(rc) : rc \in RegisterCodes} \cup {"Panic"}

\* The general register a register is, or is a half of; "" for the others
Letter(reg) ==
    CASE reg \in {"Ax", "Ah", "Al"} -> "A"
      [] reg \in {"Bx", "Bh", "Bl"} -> "B"
      [] reg \in {"Cx", "Ch", "Cl"} -> "C"
      [] reg \in {"Dx", "Dh", "Dl"} -> "D"
      [] OTHER -> ""

\* The operands of an instruction are the high half and the low half of one
\* general register, in either order
SameLetterHalves(instr) ==
    /\ instr.operand_a.kind = "Register"
    /\ instr.operand_b.kind = "Register"
    /\ \/ instr.operand_a.reg \in HighRegisters /\ instr.operand_b.reg \in LowRegisters
       \/ instr.operand_a.reg \in LowRegisters /\ instr.operand_b.reg \in HighRegisters
    /\ Letter(instr.operand_a.reg) = Letter(instr.operand_b.reg)

\* The packed register code of two halves: 0b1001 for a high half with a low
\* half, 0b0110 for a low half with a high half
HalvesCode(instr) == IF instr.operand_a.reg \in HighRegisters THEN 9 ELSE 6

\* C11, as stated: an instruction of a TwoRegister opcode whose operands are
\* the high half and the low half of the same general register (packed
\* register code 0b0110 or 0b1001) passes validation.
C11_SameLetterHalvesPermitted ==
    (/\ stage = "validated"
     /\ built.instr.opcode \in TwoRegisterOpcodes
     /\ SameLetterHalves(built.instr))
      => ValidityWith(HalvesCode(built.instr)) = "Ok"

\* C11, amended: an instruction of a TwoRegister opcode whose operands are
\* the high half and the low half of the same general register fails
\* validation.  Its packed register code (0b0110 or 0b1001) is in the legal
\* set, and the pair check then returns MixedRegisterTypesError; under every
\* other register code the result is an error as well.
C11_SameLetterHalvesRejected ==
    (/\ stage = "validated"
     /\ built.instr.opcode \in TwoRegisterOpcodes
     /\ SameLetterHalves(built.instr))
      => /\ get_reg_code(built.instr.operand_a, built.instr.operand_b)
              = HalvesCode(built.instr)
         /\ ValidityWith(HalvesCode(built.instr)) = "MixedRegisterTypesError"
         /\ \A rc \in RegisterCodes :
               ValidityWith(rc) \in {"MixedRegisterTypesError", "InvalidRegisterCodeError"}
         /\ validity \in {"MixedRegisterTypesError", "InvalidRegisterCodeError"}

\* Add Al, Ah has been validated and rejected
C11_Witness ==
    /\ stage = "validated"
    /\ Built("Add", Register("Al"), Register("Ah"))
    /\ ValidityWith(6) = "MixedRegisterTypesError"
    /\ validity # "Ok"

\* Both operands of the instruction built are Register(None)
BothNone ==
    /\ built.instr.operand_a = Register("None")
    /\ built.instr.operand_b = Register("None")

\* C12: an instruction of a NoOperand opcode passes validation when both
\* operands are Register(None) and the register code is 0, and fails when
\* either operand is a register other than None or an immediate.
C12_NoOperandValid ==
    (Validated /\ built.instr.opcode \in NoOperandOpcodes)
      => /\ \A rc \in RegisterCodes : ValidityWith(rc) = "Ok" <=> (rc = 0 /\ BothNone)
         /\ BothNone => get_reg_code(built.instr.operand_a, built.instr.operand_b) = 0
         /\ validity = "Ok" => BothNone

\* Ret with a register as its first operand has been validated and rejected
C12_Witness ==
    /\ Validated
    /\ Built("Ret", Register("Ax"), Register("None"))
    /\ ValidityWith(0) = "RegisterNotNoneError"
    /\ validity # "Ok"

\* operand_a of the instruction built is a register other than None, and
\* operand_b is Register(None)
OneRegister ==
    /\ built.instr.operand_a.kind = "Register"
    /\ built.instr.operand_a.reg # "None"
    /\ built.instr.operand_b = Register("None")

\* C13: an instruction of a OneRegister opcode passes validation if and only
\* if operand_a is a register other than None and operand_b is
\* Register(None); a second register and an immediate as operand_b fail.
C13_OneRegisterValid ==
    (Validated /\ built.instr.opcode \in OneRegisterOpcodes)
      => /\ \A rc \in RegisterCodes : ValidityWith(rc) = "Ok" <=> OneRegister
         /\ validity = "Ok" => OneRegister
         /\ (built.instr.operand_a.reg # "None" /\ built.instr.operand_b.kind = "Register"
               /\ built.instr.operand_b.reg # "None")
              => \A rc \in RegisterCodes : ValidityWith(rc) = "RegisterNotNoneError"
         /\ (built.instr.operand_a.reg # "None" /\ built.instr.operand_b.kind # "Register")
              => \A rc \in RegisterCodes : ValidityWith(rc) = "OperandNotRegisterError"

\* Addc Ax, Sp has been validated and rejected for its second register
C13_Witness ==
    /\ Validated
    /\ Built("Addc", Register("Ax"), Register("Sp"))
    /\ validity = "RegisterNotNoneError"

\* C14: an instruction of a RegisterAndShortImmediate opcode (In, Out, Intr,
\* Into) passes validation only if operand_b is a ShortImmediate of 0..31; a
\* ShortImmediate of 32..255 fails with ImmediateTooLargeError, and a
\* register (None, for a missing operand, included) as operand_b fails.
C14_ShortImmediateValid ==
    (Validated /\ built.instr.opcode \in RegisterAndShortImmediateOpcodes)
      => /\ \A rc \in RegisterCodes :
               /\ ValidityWith(rc) = "Ok"
                    => /\ built.instr.operand_b.kind = "ShortImmediate"
                       /\ built.instr.operand_b.imm \in 0..31
               /\ (built.instr.operand_b.kind = "ShortImmediate"
                     /\ built.instr.operand_b.imm \in 32..255)
                    => ValidityWith(rc) = "ImmediateTooLargeError"
               /\ built.instr.operand_b.kind = "Register"
                    => ValidityWith(rc) = "OperandNotShortImmediateError"
         /\ validity = "Ok"
              => /\ built.instr.operand_b.kind = "ShortImmediate"
                 /\ built.instr.operand_b.imm \in 0..31

\* In Ax, 32 has been validated and rejected for its immediate
C14_Witness ==
    /\ Validated
    /\ Built("In", Register("Ax"), ShortImmediate(32))
    /\ validity = "ImmediateTooLargeError"

\* --------------------------------------------------------- the two passes

\* The text of a line after its label, if it has one
AfterLabel(line) ==
    IF \E i \in 1..Len(line) : line[i] = ":"
    THEN SubSeq(line, (CHOOSE i \in 1..Len(line) :
                          line[i] = ":" /\ \A j \in 1..(i - 1) : line[j] # ":") + 1,
                Len(line))
    ELSE line

\* The directive or mnemonic of a line: its first word after the label, in
\* lower case, <<>> for a line that has none
FirstWord(line) ==
    IF split_whitespace(AfterLabel(line)) = <<>> THEN <<>>
    ELSE to_lowercase(split_whitespace(AfterLabel(line))[1])

\* The places of the backticks of a line
Ticks(line) == {i \in 1..Len(line) : line[i] = Backtick}

\* The size of a data directive line: .byte 1, .word 2, .long 4, .array the
\* number of its values, .asciiz the length of the text between its
\* backticks + 1; 0 for a line that is no directive
DirectiveSize(line) ==
    CASE FirstWord(line) = <<".", "b", "y", "t", "e">> -> 1
      [] FirstWord(line) = <<".", "w", "o", "r", "d">> -> 2
      [] FirstWord(line) = <<".", "l", "o", "n", "g">> -> 4
      [] FirstWord(line) = <<".", "a", "r", "r", "a", "y">> ->
            Len(split_whitespace(AfterLabel(line))) - 1
      [] FirstWord(line) = <<".", "a", "s", "c", "i", "i", "z">> /\ Cardinality(Ticks(line)) >= 2 ->
            (CHOOSE i \in Ticks(line) : \A j \in Ticks(line) : j <= i)
              - (CHOOSE i \in Ticks(line) : \A j \in Ticks(line) : j >= i)
      [] OTHER -> 0

\* The size of an instruction line: 4 for movi, 2 for any other mnemonic, 0
\* for a line that has no mnemonic or is the marker of the code section
InstructionSize(line) ==
    IF contains(line, code_section) \/ FirstWord(line) = <<>> THEN 0
    ELSE IF FirstWord(line) = <<"m", "o", "v", "i">> THEN 4
    ELSE 2

RECURSIVE SumOver(_, _, _, _)
\* The sum of Size over lines[from..to]
SumOver(Size(_), lines, from, to) ==
    IF from > to THEN 0
    ELSE Size(lines[from]) + SumOver(Size, lines, from + 1, to)

\* The index of the line at which pass 1 leaves the data section, 0 if none
FirstCodeSection(lines) ==
    IF \E i \in 1..Len(lines) : contains(lines[i], code_section)
    THEN CHOOSE i \in 1..Len(lines) :
            /\ contains(lines[i], code_section)
            /\ \A j \in 1..(i - 1) : ~contains(lines[j], code_section)
    ELSE 0

\* C5: the address pass 1 records for a label of the data section is 0x9000
\* plus the sizes of the data directive lines before it (.byte 1, .word 2,
\* .long 4, .array its number of values, .asciiz the length of its text + 1).
C5_DataLabelAddress ==
    \A k \in 1..Len(recorded) :
        recorded[k].data
          => recorded[k].addr
               = 36864 + SumOver(DirectiveSize, input_lines(file), 1, recorded[k].line - 1)

\* C6: the address pass 1 records for a label of the code section is 0x5800
\* plus, for each instruction line before it in the code section, 4 if the
\* line's mnemonic is movi and 2 otherwise.
C6_CodeLabelAddress ==
    \A k \in 1..Len(recorded) :
        ~recorded[k].data
          => recorded[k].addr
               = 22528 + SumOver(InstructionSize, input_lines(file),
                                 FirstCodeSection(input_lines(file)) + 1,
                                 recorded[k].line - 1)

\* The address pass 1 gave a label when it had read the whole file: that of
\* the label's last insertion
FinalAddress(label) ==
    recorded[CHOOSE k \in 1..Len(recorded) :
                /\ recorded[k].label = label
                /\ \A j \in (k + 1)..Len(recorded) : recorded[j].label # label].addr

\* The label a line refers to: the text after its "@", <<>> if it has none
Reference(line) ==
    IF \E i \in 1..Len(line) : line[i] = "@"
    THEN SubSeq(line, (CHOOSE i \in 1..Len(line) :
                          line[i] = "@" /\ \A j \in 1..(i - 1) : line[j] # "@") + 1,
                Len(line))
    ELSE <<>>

\* C8: no line is translated before pass 1 has read every line and returned
\* its table, so a reference translates to the address pass 1 gave the label
\* over the whole file, whether the label is defined before the reference or
\* after it.
C8_PassOrder ==
    /\ (pc \in {"translate", "done"} \/ translated # <<>>)
         => /\ resolver_next > Len(input_lines(file))
            /\ label_table = lable_table
    /\ \A i \in 1..Len(translated) :
          (/\ Reference(input_lines(file)[translated[i].line]) # <<>>
           /\ translated[i].result.ok)
            => /\ FirstWord(input_lines(file)[translated[i].line]) = <<".", "w", "o", "r", "d">>
               /\ translated[i].result.bytes
                    = <<FinalAddress(Reference(input_lines(file)[translated[i].line])) \div 256,
                        FinalAddress(Reference(input_lines(file)[translated[i].line])) % 256>>

\* A reference has been translated on a line before the line of its label
C8_Witness ==
    \E i \in 1..Len(translated) : \E k \in 1..Len(recorded) :
        /\ translated[i].result.ok
        /\ Reference(input_lines(file)[translated[i].line]) = recorded[k].label
        /\ recorded[k].line > translated[i].line
        /\ translated[i].result.bytes = <<recorded[k].addr \div 256, recorded[k].addr % 256>>

\* ------------------------------------------------------ pass 2, emitter

\* The Data and Instruction values pass 2 has produced, in order
Values ==
    SelectSeq(translated, LAMBDA t : t.result.ok /\ t.result.kind # "None")

RECURSIVE Concat(_)
\* The sequences of a sequence, joined
Concat(seqs) == IF seqs = <<>> THEN <<>> ELSE Head(seqs) \o Concat(Tail(seqs))

\* The bytes of a word of 16 bits, the higher byte first
BigEndian(w) == <<w \div 256, w % 256>>

\* The bytes of the word of an instruction: 2 of a Regular word, 4 of a Long
WordBytes(instr) ==
    IF instruction_into(instr).type = "Regular"
    THEN BigEndian(instruction_into(instr).lo)
    ELSE BigEndian(instruction_into(instr).hi) \o BigEndian(instruction_into(instr).lo)

\* The bytes of the values of one kind, in order
BytesOf(kind, Part(_)) ==
    Concat([i \in 1..Len(SelectSeq(Values, LAMBDA t : t.result.kind = kind)) |->
              Part(SelectSeq(Values, LAMBDA t : t.result.kind = kind)[i].result)])

DataPart(result) == result.bytes

InstructionPart(result) == WordBytes(result.instr)

\* ".data:", the bytes of the Data values, then, if there is an instruction,
\* ".code:" and the words of the instructions
ExpectedStream ==
    <<46, 100, 97, 116, 97, 58>>
      \o BytesOf("Data", DataPart)
      \o (IF \E i \in 1..Len(Values) : Values[i].result.kind = "Instruction"
          THEN <<46, 99, 111, 100, 101, 58>> ELSE <<>>)
      \o BytesOf("Instruction", InstructionPart)

\* C4: the bytes gathered for the values pass 2 produced are ".data:", the
\* bytes of every Data value in order, ".code:" once before the word of the
\* first instruction, and the word of every instruction, big-endian, in
\* order; these are the bytes written.
C4_ByteStream ==
    /\ bytes = ExpectedStream
    /\ pc = "done" => output.bytes = ExpectedStream

\* Two instructions, a Regular and a Long one, have been written after one
\* ".code:"
C4_Witness ==
    /\ pc = "done"
    /\ Len(Values) = 2
    /\ \A i \in 1..2 : Values[i].result.kind = "Instruction"
    /\ Len(output.bytes) = 6 + 6 + 2 + 4

\* The decimal text of a number below 100000
DecimalText(n) ==
    SubSeq([i \in 1..5 |-> DigitChars[((n \div (10 ^ (5 - i))) % 10) + 1]],
           CHOOSE i \in 1..5 :
              /\ i = 5 \/ n \div (10 ^ (5 - i)) > 0
              /\ \A j \in 1..(i - 1) : n \div (10 ^ (5 - j)) = 0,
           5)

\* A line with the address in place of its reference
WithAddress(line, addr) ==
    SubSeq(line, 1, Len(line) - Len(Reference(line)) - 1) \o DecimalText(addr)

\* The call translated a line that refers to label, a label in form
Refers(t, label) ==
    /\ Reference(AfterLabel(input_lines(file)[t.line])) = label
    /\ label # <<>>
    /\ validate_label(label)

\* C7: a line that refers to a label of the table is translated as the line
\* with the decimal text of the label's address in place of the reference is,
\* so that movi r, @L gives MovI with LargeImmediate(table[L]); a line that
\* refers to a label the table lacks fails as UnknownLabel and gives no value.
C7_LabelSubstitution ==
    \A i \in 1..Len(translated) :
      \A label \in {Reference(AfterLabel(input_lines(file)[translated[i].line]))} :
        Refers(translated[i], label)
          => IF label \in DOMAIN label_table
             THEN /\ translated[i].result
                       = process_line(WithAddress(input_lines(file)[translated[i].line],
                                                  label_table[label]),
                                      label_table, translated[i].mode,
                                      translated[i].result.instr.signed,
                                      translated[i].result.instr.set_flags)
                  /\ (/\ ~translated[i].result.data_mode
                      /\ input_lines(file)[translated[i].line]
                           = <<"M", "o", "v", "I", " ", "c", "x", ",", " ", "@", "b">>)
                       => /\ translated[i].result.ok
                          /\ translated[i].result.kind = "Instruction"
                          /\ translated[i].result.instr.opcode = "MovI"
                          /\ translated[i].result.instr.operand_a = Register("Cx")
                          /\ translated[i].result.instr.operand_b
                               = LargeImmediate(label_table[label])
             ELSE /\ ~translated[i].result.ok
                  /\ translated[i].result.err = "UnknownLabel"
                  /\ translated[i].result.kind = "None"
                  /\ pc = "panicked"

\* MovI cx, @b has been translated with b at 0x9002
C7_Witness ==
    \E i \in 1..Len(translated) :
        /\ Refers(translated[i], <<"b">>)
        /\ translated[i].result.ok
        /\ translated[i].result.instr.opcode = "MovI"
        /\ translated[i].result.instr.operand_b = LargeImmediate(36866)

\* The marker line is among the first n lines
MarkerWithin(n) ==
    \E j \in 1..n : j <= Len(input_lines(file)) /\ input_lines(file)[j] = code_marker

\* The line has text after its label
HasText(line) == \E k \in 1..Len(AfterLabel(line)) : AfterLabel(line)[k] \notin Whitespace

\* The call failed while replacing a reference, before it parsed the line
ReferenceFailed(t) == ~t.result.ok /\ t.result.kind = "None"

\* C9: the flag of pass 2 starts true, is false from the marker line on and
\* is never true again; a line with text before the marker line is parsed as
\* Data, and one after it as an Instruction, which is validated.
C9_ModeFlag ==
    /\ data_mode = ~MarkerWithin(Len(translated))
    /\ \A i \in 1..Len(translated) :
          /\ translated[i].mode = ~MarkerWithin(translated[i].line - 1)
          /\ translated[i].result.data_mode = ~MarkerWithin(translated[i].line)
          /\ (HasText(input_lines(file)[translated[i].line]) /\ ~ReferenceFailed(translated[i]))
               => IF MarkerWithin(translated[i].line)
                  THEN /\ translated[i].result.kind = "Instruction"
                       /\ translated[i].result.ok
                            => validate_instruction(translated[i].result.instr) = "Ok"
                  ELSE translated[i].result.kind = "Data"

\* A line before the marker has given Data and a line after it an
\* Instruction
C9_Witness ==
    /\ Len(translated) = 3
    /\ translated[1].result.kind = "Data"
    /\ input_lines(file)[2] = code_marker
    /\ ~translated[2].result.data_mode
    /\ translated[3].result.kind = "Instruction"
    /\ translated[3].result.ok

\* -------------------------------------------------- building an instruction

\* Whether a register is tagged high, and whether it is tagged low
TaggedHigh ==
    [r \in Registers |->
        r \in {"Ax", "Bx", "Cx", "Dx", "Rp", "Fp", "Bp", "Sp", "Ah", "Bh", "Ch", "Dh"}]

TaggedLow ==
    [r \in Registers |->
        r \in {"Ax", "Bx", "Cx", "Dx", "Rp", "Fp", "Bp", "Sp", "Al", "Bl", "Cl", "Dl"}]

\* C18: Instruction::new(opcode, operand_a, operand_b) fails when operand_a is
\* not a Register; otherwise it keeps the opcode and the operands, sets high
\* and low from the register of operand_a alone (a full-width register both,
\* a high half high only, a low half low only, None, Pc and St neither) and
\* sets signed and set_flags to the flags of the opcode, whatever operand_b
\* is.
C18_NewInstruction ==
    (pc = "unit" /\ stage # "start")
      => /\ built.ok <=> given.operand_a.kind = "Register"
         /\ built.ok
              => /\ built.instr.opcode = given.opcode
                 /\ built.instr.operand_a = given.operand_a
                 /\ built.instr.operand_b = given.operand_b
                 /\ built.instr.high = TaggedHigh[given.operand_a.reg]
                 /\ built.instr.low = TaggedLow[given.operand_a.reg]
                 /\ built.instr.signed \in is_signed(given.opcode)
                 /\ built.instr.set_flags \in set_flags(given.opcode)
         /\ (built.ok /\ given.opcode = "Add")
              => built.instr.signed /\ built.instr.set_flags
         /\ (built.ok /\ given.opcode \in {"Nop", "In", "MovI"})
              => ~built.instr.signed /\ ~built.instr.set_flags

\* In Dl, 5 has been built: low only, neither signed nor setting the flags
C18_Witness ==
    /\ pc = "unit"
    /\ stage = "new"
    /\ given = [opcode |-> "In", operand_a |-> Register("Dl"),
                operand_b |-> ShortImmediate(5)]
    /\ built.ok
    /\ ~built.instr.high
    /\ built.instr.low

\* ------------------------------------------------------ parsing one text

\* A text has been parsed as the subject
Parsed(s) == pc = "parse" /\ subject = s /\ stage = "parsed"

\* The value a number text was written for is at most max (below 2^16)
AtMost(n, max) == ~n.over /\ n.hi = 0 /\ n.lo <= max

\* C15: when the third token of an instruction line is an immediate
\* (decimal, 0x or 0b), the operand is LargeImmediate(v) for movi and every v
\* of 0..65535, and movi fails for v > 65535; for every other opcode it is
\* ShortImmediate(v) for every v of 0..255, and the line fails with an
\* out-of-range error for v > 255.
C15_ImmediateVariant ==
    Parsed("immediate")
      => IF given.opcode = "MovI"
         THEN IF AtMost(given.value, 65535)
              THEN /\ parsed.ok
                   /\ parsed.instr.opcode = "MovI"
                   /\ parsed.instr.operand_a = Register("Ax")
                   /\ parsed.instr.operand_b = LargeImmediate(given.value.lo)
              ELSE ~parsed.ok /\ parsed.err = "ParseIntError"
         ELSE IF AtMost(given.value, 255)
              THEN /\ parsed.ok
                   /\ parsed.instr.opcode = given.opcode
                   /\ parsed.instr.operand_a = Register("Ax")
                   /\ parsed.instr.operand_b = ShortImmediate(given.value.lo)
              ELSE ~parsed.ok /\ parsed.err \in {"TryFromIntError", "ParseIntError"}

\* "in ax, 0x100" has failed: 256 does not fit a ShortImmediate
C15_Witness ==
    /\ Parsed("immediate")
    /\ given.opcode = "In"
    /\ given.value = Numeral(<<"0", "x", "1", "0", "0">>, 0, 256, FALSE)
    /\ ~parsed.ok
    /\ parsed.err = "TryFromIntError"

\* The codes of the characters of the texts of .asciiz lines
Ascii ==
    [c \in {" ", "!", ":", "H", "a", "b", "e", "i", "o", "u", "y"} |->
        CASE c = " " -> 32 [] c = "!" -> 33 [] c = ":" -> 58 [] c = "H" -> 72
          [] c = "a" -> 97 [] c = "b" -> 98 [] c = "e" -> 101 [] c = "i" -> 105
          [] c = "o" -> 111 [] c = "u" -> 117 [] c = "y" -> 121]

\* C16: Data::from gives, for each directive, the documented bytes: .byte v
\* gives [v] and fails for v > 255; .word v gives the 2 bytes of v, the
\* higher first; .long v gives the 4 bytes of v, the highest first, and
\* fails for v > 2^32 - 1; .array gives one byte for each value, in order;
\* .asciiz `text` gives the bytes of text and one zero byte after them; any
\* other first token fails.
C16_DataBytes ==
    Parsed("data")
      => CASE given.directive = <<".", "b", "y", "t", "e">> ->
                IF AtMost(given.values[1], 255)
                THEN parsed.ok /\ parsed.bytes = <<given.values[1].lo>>
                ELSE ~parsed.ok
           [] given.directive = <<".", "w", "o", "r", "d">> ->
                AtMost(given.values[1], 65535)
                  => parsed.ok /\ parsed.bytes = BigEndian(given.values[1].lo)
           [] given.directive = <<".", "l", "o", "n", "g">> ->
                IF given.values[1].over THEN ~parsed.ok
                ELSE /\ parsed.ok
                     /\ parsed.bytes = BigEndian(given.values[1].hi)
                                         \o BigEndian(given.values[1].lo)
           [] given.directive = <<".", "a", "r", "r", "a", "y">> ->
                (\A i \in 1..Len(given.values) : AtMost(given.values[i], 255))
                  => /\ parsed.ok
                     /\ parsed.bytes = [i \in 1..Len(given.values) |-> given.values[i].lo]
           [] given.directive = <<".", "a", "s", "c", "i", "i", "z">> ->
                /\ parsed.ok
                /\ parsed.bytes = [i \in 1..Len(given.text) |-> Ascii[given.text[i]]]
                                    \o <<0>>
           [] OTHER ->
                ~parsed.ok /\ parsed.err = "not a valid data instruction type"

\* C17, as stated: every spelling of a name Register::from accepts (none, ax
\* ... sp, pc) gives a register whose conversion returns its family code, a
\* value of 0..7; every other text, st included, fails.
C17_RegisterRoundTrip ==
    Parsed("register")
      => IF given.name = <<>> THEN ~parsed.ok
         ELSE /\ parsed.ok
              /\ parsed.code \in 0..7
              /\ given.name[1] = "a" => parsed.code = 0
              /\ (given.name[1] = "b" /\ given.name # <<"b", "p">>) => parsed.code = 1
              /\ given.name[1] = "c" => parsed.code = 2
              /\ given.name[1] = "d" => parsed.code = 3
              /\ given.name = <<"r", "p">> => parsed.code = 4
              /\ given.name = <<"f", "p">> => parsed.code = 5
              /\ given.name = <<"b", "p">> => parsed.code = 6
              /\ given.name = <<"s", "p">> => parsed.code = 7

\* The family code of the register a name other than pc is a spelling of
NameCode(name) ==
    CASE name = <<"n", "o", "n", "e">> -> 0
      [] name = <<"r", "p">> -> 4
      [] name = <<"f", "p">> -> 5
      [] name = <<"b", "p">> -> 6
      [] name = <<"s", "p">> -> 7
      [] name[1] = "a" -> 0
      [] name[1] = "b" -> 1
      [] name[1] = "c" -> 2
      [] name[1] = "d" -> 3

\* C17, amended: every spelling of none, ax ... sp gives a register whose
\* conversion returns its family code (0 for none, A 0, B 1, C 2, D 3, Rp 4,
\* Fp 5, Bp 6, Sp 7, a register and its halves sharing one code); every
\* spelling of pc gives the register Pc, whose conversion fails; every other
\* text, st included, fails in Register::from.
C17_RegisterFamilyCode ==
    Parsed("register")
      => IF given.name = <<>> THEN ~parsed.ok
         ELSE IF given.name = <<"p", "c">>
         THEN parsed.ok /\ parsed.reg = "Pc" /\ parsed.code = -1
         ELSE parsed.ok /\ parsed.code = NameCode(given.name)

\* "PC" has been parsed as Pc, and the conversion of Pc has failed
C17_Witness ==
    /\ Parsed("register")
    /\ given.line = <<"P", "C">>
    /\ parsed = [ok |-> TRUE, reg |-> "Pc", code |-> -1]

\* ------------------------------------------------------ labels in pass 1

\* A label as the specification accepts it: not empty, a letter or an
\* underscore first, letters, digits and underscores throughout
Acceptable(label) ==
    /\ label # <<>>
    /\ label[1] \in UpperLetters \cup LowerLetters \cup {"_"}
    /\ \A i \in 1..Len(label) : label[i] \in UpperLetters \cup LowerLetters \cup Digits \cup {"_"}

\* A line that is a label definition and nothing else: an acceptable name
\* and a colon
IsLabelLine(line) ==
    /\ Len(line) >= 2
    /\ line[Len(line)] = ":"
    /\ Acceptable(SubSeq(line, 1, Len(line) - 1))

\* The name a line that is only a label defines
LabelLineName(line) == SubSeq(line, 1, Len(line) - 1)

\* A table with one more definition
Defined(table, label, addr) ==
    [l \in DOMAIN table \cup {label} |-> IF l = label THEN addr ELSE table[l]]

\* Pass 1 is about to read the line numbered resolver_next
Reading == pc = "get_label_table" /\ resolver_next <= Len(input_lines(file))

\* C19: in pass 1 a line that is only a label definition records the label
\* at the current address of the current section and leaves the data and the
\* code address counters as they are; a label defined on the line right
\* after it gets the same address.
C19_LabelOnlyLine ==
    /\ [][(Reading /\ IsLabelLine(input_lines(file)[resolver_next]))
            => /\ pc' = pc
               /\ resolver_next' = resolver_next + 1
               /\ data_line_num' = data_line_num
               /\ code_line_num' = code_line_num
               /\ resolver_data_mode' = resolver_data_mode
               /\ lable_table' =
                     Defined(lable_table, LabelLineName(input_lines(file)[resolver_next]),
                             IF resolver_data_mode THEN data_line_num ELSE code_line_num)]_vars
    /\ [](\A i \in 1..(Len(recorded) - 1) :
             (/\ IsLabelLine(input_lines(file)[recorded[i].line])
              /\ recorded[i + 1].line = recorded[i].line + 1)
               => recorded[i + 1].addr = recorded[i].addr)

\* After .byte 5 the lines b: and code: have both been recorded at 0x9001,
\* and the data counter is still 0x9001
C19_Witness ==
    /\ pc = "get_label_table"
    /\ Len(recorded) = 2
    /\ recorded[1].label = <<"b">> /\ recorded[1].line = 2 /\ recorded[1].addr = 36865
    /\ recorded[2].label = <<"c", "o", "d", "e">> /\ recorded[2].line = 3
    /\ recorded[2].addr = 36865
    /\ data_line_num = 36865
    /\ code_line_num = 22528

\* A line pass 1 reads a label definition of: it holds a colon and is not
\* the marker of the code section
DefinesLabel(line) ==
    /\ \E i \in 1..Len(line) : line[i] = ":"
    /\ ~\E i \in 0..(Len(line) - 6) : SubSeq(line, i + 1, i + 6) = <<".", "c", "o", "d", "e", ":">>

\* The label of such a line: the line without its last character when that
\* is the colon, the text before its first colon otherwise
DefinedLabel(line) ==
    IF line[Len(line)] = ":" THEN SubSeq(line, 1, Len(line) - 1)
    ELSE SubSeq(line, 1, (CHOOSE i \in 1..Len(line) :
                            line[i] = ":" /\ \A j \in 1..(i - 1) : line[j] # ":") - 1)

\* Labels of the kinds the tests of validate_label name, each with whether
\* it is to be accepted: label, __label, __abc__123, _, a, A1, 123, 1abc,
\* l@bel, hello world, a:
LabelSamples ==
    {<<<<"l", "a", "b", "e", "l">>, TRUE>>,
     <<<<"_", "_", "l", "a", "b", "e", "l">>, TRUE>>,
     <<<<"_", "_", "a", "b", "c", "_", "_", "1", "2", "3">>, TRUE>>,
     <<<<"_">>, TRUE>>,
     <<<<"a">>, TRUE>>,
     <<<<"A", "1">>, TRUE>>,
     <<<<"1", "2", "3">>, FALSE>>,
     <<<<"1", "a", "b", "c">>, FALSE>>,
     <<<<"l", "@", "b", "e", "l">>, FALSE>>,
     <<<<"h", "e", "l", "l", "o", " ", "w", "o", "r", "l", "d">>, FALSE>>,
     <<<<"a", ":">>, FALSE>>}

LastRecorded(label) ==
    recorded[CHOOSE i \in 1..Len(recorded) :
                /\ recorded[i].label = label
                /\ \A j \in (i + 1)..Len(recorded) : recorded[j].label # label]

\* C21: a label defined more than once does not make pass 1 fail, and the
\* table maps it to the address that was current at its last definition,
\* whichever sections its definitions are in: every definition of an
\* acceptable label, of a new name or of a name the table holds, sets the
\* name's entry to the current address of the current section and leaves the
\* other entries alone; the line fails exactly when it fails with an empty
\* table; and the table returned is the table of the last insertions.
C21_LastDefinitionWins ==
    /\ [](/\ DOMAIN lable_table = {recorded[i].label : i \in 1..Len(recorded)}
          /\ \A l \in DOMAIN lable_table : lable_table[l] = LastRecorded(l).addr
          /\ pc \in {"translate", "done"} => label_table = lable_table)
    /\ [][LET line == input_lines(file)[resolver_next]
              here == IF resolver_data_mode THEN data_line_num ELSE code_line_num
          IN  (Reading /\ DefinesLabel(line) /\ Acceptable(DefinedLabel(line)))
                => /\ lable_table' = Defined(lable_table, DefinedLabel(line), here)
                   /\ recorded' = Append(recorded, [label |-> DefinedLabel(line),
                                                    addr |-> here,
                                                    line |-> resolver_next,
                                                    data |-> resolver_data_mode])
                   /\ IsLabelLine(line) => pc' = pc
                   /\ (pc' = "panicked")
                        <=> ~label_table_line(line, EmptyTable, resolver_data_mode,
                                              code_line_num, data_line_num).ok]_vars

\* b was defined in the data section and again in the code section, and the
\* table pass 1 returned holds the address of the second definition
C21_Witness ==
    /\ pc = "translate"
    /\ Len(recorded) = 2
    /\ recorded[1].label = <<"b">> /\ recorded[1].data /\ recorded[1].addr = 36864
    /\ recorded[2].label = <<"b">> /\ ~recorded[2].data /\ recorded[2].addr = 22528
    /\ label_table = Defined(EmptyTable, <<"b">>, 22528)

\* ------------------------------------------------------- the hard stop

\* C22: a failure in pass 1 or in pass 2 stops the whole translation at the
\* first failing line: nothing runs after it, every line before it was
\* accepted, and no byte is written to the output, neither a section marker
\* nor the bytes of the lines before it; a failure of pass 1 comes before
\* the output file is opened and before pass 2 reads a line.
C22_HardStop ==
    /\ [](LET lines == input_lines(file)
          IN  /\ (panic # "") <=> (pc = "panicked")
              /\ output.bytes # <<>> => (pc = "done" /\ panic = "")
              /\ \A i \in 1..Len(translated) :
                    ~translated[i].result.ok => (i = Len(translated) /\ pc = "panicked")
              /\ pc = "panicked"
                   => /\ output.bytes = <<>>
                      /\ IF ~output.created
                         THEN /\ resolver_next <= Len(lines)
                              /\ translated = <<>>
                              /\ next_line = 1
                              /\ bytes = <<>>
                         ELSE /\ translated # <<>>
                              /\ translated[Len(translated)].line = next_line
                              /\ next_line <= Len(lines))
    /\ [][pc # "panicked"]_vars

\* .byte 5 was translated and .word @b, b being defined nowhere, has stopped
\* pass 2: the marker and the byte 5 are gathered, and nothing is written
C22_Witness ==
    /\ pc = "panicked"
    /\ panic = "UnknownLabel"
    /\ Len(translated) = 2
    /\ translated[1].result.ok
    /\ translated[1].result.bytes = <<5>>
    /\ bytes = data_marker_bytes \o <<5>>
    /\ output = [created |-> TRUE, bytes |-> <<>>]

\* ---------------------------------------- pass 1 against the bytes emitted

\* The number of bytes main gathers for a process_line call: the bytes of a
\* Data, the 2 or 4 bytes of an Instruction, none for a line that is only a
\* label
EmittedCount(t) ==
    IF t.result.kind = "Data" THEN Len(t.result.bytes)
    ELSE IF t.result.kind = "Instruction"
    THEN Len(instr_bytes(instruction_into(t.result.instr)))
    ELSE 0

\* The bytes gathered for the lines from..to
RECURSIVE EmittedSum(_, _)
EmittedSum(from, to) ==
    IF from > to THEN 0
    ELSE EmittedCount(translated[from]) + EmittedSum(from + 1, to)

\* C23: for a program both passes accept, the address pass 1 gave a label
\* is the base of its section (0x9000 data, 0x5800 code) plus the number of
\* bytes pass 2 and the encoder emit for the lines of that section before
\* the label.
C23_AdvanceIsEmitted ==
    pc = "done"
      => \A k \in 1..Len(recorded) :
            recorded[k].addr
              = IF recorded[k].data
                THEN 36864 + EmittedSum(1, recorded[k].line - 1)
                ELSE 22528 + EmittedSum(FirstCodeSection(input_lines(file)) + 1,
                                        recorded[k].line - 1)

\* ------------------------------------------------ the marker of the code

\* C24: the line at which pass 1 leaves the data section is the line at
\* which the flag of pass 2 becomes false: after process_line has read a
\* line, its flag is false exactly when pass 1 left the data section at that
\* line or before it, and a line that defines a label is read in the same
\* mode by both passes.
C24_SameMarker ==
    /\ \A i \in 1..Len(translated) :
          translated[i].result.data_mode
            = ~(FirstCodeSection(input_lines(file)) \in 1..translated[i].line)
    /\ \A i \in 1..Len(translated), k \in 1..Len(recorded) :
          translated[i].line = recorded[k].line
            => translated[i].mode = recorded[k].data
    /\ pc = "done" => data_mode = resolver_data_mode

\* ------------------------------------------- accepted, hence encodable

\* The operand is the program counter or the status flags
NoOperandRegister(operand) == operand.kind = "Register" /\ operand.reg \in {"Pc", "St"}

UnlabelledAsciiz(line) ==
    /\ Len(line) >= 10
    /\ SubSeq(line, 1, 9) = <<".", "a", "s", "c", "i", "i", "z", " ", Backtick>>
    /\ line[Len(line)] = Backtick

\* The text between the backticks of such a line
AsciizText(line) == SubSeq(line, 10, Len(line) - 1)

\* C26: process_line removes a leading label definition and nothing else: a
\* data line .asciiz `text` that has no label gives the bytes of text and
\* one zero byte, for every text, also one that holds a colon.
C26_OnlyLeadingLabel ==
    \A i \in 1..Len(translated) :
        (/\ translated[i].mode
         /\ UnlabelledAsciiz(input_lines(file)[translated[i].line]))
          => /\ translated[i].result.ok
             /\ translated[i].result.kind = "Data"
             /\ translated[i].result.bytes
                  = [j \in 1..Len(AsciizText(input_lines(file)[translated[i].line])) |->
                        Ascii[AsciizText(input_lines(file)[translated[i].line])[j]]]
                      \o <<0>>

\* ------------------------------------------------- the packed width code

\* The width class of a register: None 00, a high half 01, a low half 10, a
\* full-width register 11
WidthClass ==
    [r \in Registers \ {"Pc", "St"} |->
        CASE r = "None" -> 0
          [] r \in {"Ah", "Bh", "Ch", "Dh"} -> 1
          [] r \in {"Al", "Bl", "Cl", "Dl"} -> 2
          [] OTHER -> 3]

\* C27: get_reg_code(a, b) for two register operands is the 4-bit code whose
\* bits 1-0 are the width class of a and whose bits 3-2 are the width class
\* of b; it is 0 exactly when both are None, and one of 0b1010, 0b0101 and
\* 0b1111 exactly when both are registers of one width class.
C27_PackedCode ==
    (/\ Parsed("reg_code")
     /\ given.operand_a.reg \notin {"Pc", "St"}
     /\ given.operand_b.reg \notin {"Pc", "St"})
      => /\ parsed.code = 4 * WidthClass[given.operand_b.reg] + WidthClass[given.operand_a.reg]
         /\ parsed.code \in 0..15
         /\ parsed.code = 0
              <=> (given.operand_a.reg = "None" /\ given.operand_b.reg = "None")
         /\ parsed.code \in {10, 5, 15}
              <=> /\ given.operand_a.reg # "None"
                  /\ given.operand_b.reg # "None"
                  /\ WidthClass[given.operand_a.reg] = WidthClass[given.operand_b.reg]

\* Al and Bh have been packed to 0b0110
C27_Witness ==
    /\ Parsed("reg_code")
    /\ given = [operand_a |-> Register("Al"), operand_b |-> Register("Bh")]
    /\ parsed.code = 6

====
